---- MODULE Spec2Model ----
(***************************************************************************)
(* Model of BluraySubtitle (src/BluraySubtitle.py): the episode-to-chapter *)
(* alignment engine (BluraySubtitle.generate_configuration), the subtitle  *)
(* merge that consumes its plan (BluraySubtitle.generate_bluray_subtitle), *)
(* the ASS style reconciliation of Subtitle.append_ass and the GUI         *)
(* handlers that store plans in the global CONFIGURATION; further the      *)
(* duration estimate, the SRT merge, the chapter text and the run of       *)
(* bdmv_remux, the decoding of playlists (Chapter, get_main_mpls, the      *)
(* times of the marks) and the episode loop of bdmv_remux.                 *)
(*                                                                         *)
(* Time.  Every time of the program is a multiple of one MPLS tick         *)
(* (1/45000 s) in the inputs drawn here, so times are kept as integers in  *)
(* ticks: the code's float seconds x are the integer 45000 * x.  The code  *)
(* leaves that grid in get_time_str, which rounds to milliseconds and is   *)
(* modelled with its rounding, and in the two totals of a playlist, whose  *)
(* float sums are modelled bit by bit (TotalTime, TotalTimeNoRepeat).      *)
(***************************************************************************)
EXTENDS Integers, Sequences, FiniteSets, TLC

\* ------------------------------------------------------------------------
\* Bounds of the model
\* ------------------------------------------------------------------------
MaxRows == 2

MaxSubs == 2

\* the chapter numbers a caller may pin an episode to are 1 .. MaxChapter
MaxChapter == 3

\* ------------------------------------------------------------------------
\* Program constants
\* ------------------------------------------------------------------------
TicksPerSecond == 45000

Sec(n) == n * TicksPerSecond

\* "else 1440": the duration assumed when no subtitle file is given
DefaultSubEnd == 1440

\* the heuristic thresholds of generate_configuration, in seconds
NextEpisodeTolerance == 300

LeftTimeMargin == 180

SiameseItemMin == 2600

SiameseEndMax == 1800

SiameseTailMin == 1200

\* ------------------------------------------------------------------------
\* Chapter: a decoded playlist
\*   in_out_time : sequence of play-items (clip, in_time, out_time)
\*   mark_info   : ref_to_play_item_id (0-based) -> list of mark timestamps
\* ------------------------------------------------------------------------
PlayItem(clip, in_time, out_time) ==
    [clip_information_filename |-> clip, in_time |-> in_time, out_time |-> out_time]

\* chapter.mark_info.get(i): None (falsy) when the play-item has no mark
MarkInfoGet(chapter, i) ==
    IF i \in DOMAIN chapter.mark_info THEN chapter.mark_info[i] ELSE <<>>

RECURSIVE SumDurations(_, _)
SumDurations(in_out_time, n) ==
    IF n = 0 THEN 0
    ELSE SumDurations(in_out_time, n - 1)
         + (in_out_time[n].out_time - in_out_time[n].in_time)

\* Chapter.get_total_time, in ticks
get_total_time(chapter) == SumDurations(chapter.in_out_time, Len(chapter.in_out_time))

\* ------------------------------------------------------------------------
\* get_time_str and its inverse as used by generate_bluray_subtitle.
\* A time string is the sequence of its ':'-separated fields, each field
\* being the number it spells in thousandths: '0' is <<0>>,
\* '00:24:00.000' is <<0, 0, 0>> and '00:19:05.250' is <<0, 19000, 5250>>.
\* ------------------------------------------------------------------------
\* round(seconds, 3) of a number of ticks below one minute, in milliseconds
\* (45 ticks per millisecond; 45 is odd, so there is no tie to break)
RoundMs(ticks) == (2 * ticks + 45) \div 90

get_time_str(duration) ==
    IF duration = 0 THEN <<0>>
    ELSE LET hours   == duration \div Sec(3600)
             dur     == duration % Sec(3600)
             minutes == dur \div Sec(60)
             seconds == dur % Sec(60)
         IN  <<hours * 1000, minutes * 1000, RoundMs(seconds)>>

\* reduce(lambda a, b: a * 60 + b, map(float, s.split(':'))), in milliseconds
RECURSIVE ReduceTime(_, _)
ReduceTime(fields, n) ==
    IF n = 1 THEN fields[1]
    ELSE ReduceTime(fields, n - 1) * 60 + fields[n]

ParseTime(fields) == ReduceTime(fields, Len(fields))

\* ------------------------------------------------------------------------
\* Subtitle(self.sub_files[k]).max_end_time() if self.sub_files else 1440.
\* sub_files is the list of the subtitles' max_end_time, in ticks; reading
\* past the end of the list raises IndexError, modelled as the value -1.
\* ------------------------------------------------------------------------
IndexError == -1

SubEnd(sub_files, k) ==
    IF sub_files = <<>> THEN Sec(DefaultSubEnd)
    ELSE IF k < Len(sub_files) THEN sub_files[k + 1]
    ELSE IndexError

\* configuration[k] = v
Put(configuration, k, v) == (k :> v) @@ configuration

Entry(bdmv_index, chapter_index, offset) ==
    [folder |-> bdmv_index, selected_mpls |-> bdmv_index, bdmv_index |-> bdmv_index,
     chapter_index |-> chapter_index, offset |-> offset]

EmptyConfiguration == <<>>

\* ------------------------------------------------------------------------
\* generate_configuration, shared pieces.
\* The walk state s holds the locals of generate_configuration:
\*   configuration, sub_index, sub_end_time, left_time, j, raised
\* and start_time (default mode) or offset (override mode); raised is TRUE
\* once an exception has left the function (no plan is returned then).
\* ------------------------------------------------------------------------
\* ((sub_index + 1 < len(self.sub_files)) if self.sub_files else True)
HasNextSubtitle(sub_files, sub_index) ==
    IF sub_files = <<>> THEN TRUE ELSE sub_index + 1 < Len(sub_files)

\* AfterPreviousEpisode with a tolerance of 600 s instead of 300 s
AfterPreviousEpisodeWide(time_shift, sub_end_time) ==
    time_shift > sub_end_time - Sec(2 * NextEpisodeTolerance)

\* time_shift > sub_end_time - 300 (line 667; offset > sub_end_time - 300, line 613)
AfterPreviousEpisode(time_shift, sub_end_time) ==
    time_shift > sub_end_time - Sec(NextEpisodeTolerance)

\* left_time > next subtitle's max_end_time - 180; the guard HasNextSubtitle
\* is evaluated first (short-circuit and), so next_end is never IndexError
EnoughLeft(left_time, next_end) == left_time > next_end - Sec(LeftTimeMargin)

\* time_shift > sub_end_time and (out_time - mark) / 45000 > 1200
SiameseMark(time_shift, sub_end_time, item, mark) ==
    /\ time_shift > sub_end_time
    /\ item.out_time - mark > Sec(SiameseTailMin)

\* sub_end_time = time_shift + Subtitle(self.sub_files[e]).max_end_time()
\* configuration[e] = {... 'chapter_index': chapter_index, 'offset': get_time_str(time_shift)}
Place(s, sub_files, e, bdmv_index, chapter_index, time_shift) ==
    IF SubEnd(sub_files, e) = IndexError THEN [s EXCEPT !.raised = TRUE]
    ELSE [s EXCEPT !.sub_index = e,
                   !.sub_end_time = time_shift + SubEnd(sub_files, e),
                   !.configuration = Put(@, e, Entry(bdmv_index, chapter_index,
                                                     get_time_str(time_shift)))]

\* ------------------------------------------------------------------------
\* generate_configuration, default mode (lines 649-700)
\* ------------------------------------------------------------------------
\* k = j, then k += 1 at the head of each iteration: the value of k at the
\* m-th mark (m = 1, 2, ...) of the play-item whose first mark is number j
SiameseChapterIndex(j, m) == j + m

\* lines 679-690: for mark in play_item_marks
RECURSIVE SiameseScan(_, _, _, _, _, _)
SiameseScan(s, sub_files, bdmv_index, item, marks, m) ==
    IF s.raised \/ m > Len(marks) THEN s
    ELSE LET time_shift == s.start_time + marks[m] - item.in_time
             s1 == IF SiameseMark(time_shift, s.sub_end_time, item, marks[m])
                   THEN Place(s, sub_files, s.sub_index + 1, bdmv_index,
                              SiameseChapterIndex(s.j, m), time_shift)
                   ELSE s
         IN  SiameseScan(s1, sub_files, bdmv_index, item, marks, m + 1)

\* lines 667-676: the first mark of a play-item starts the next episode
DefaultFirstMark(s, sub_files, bdmv_index, time_shift) ==
    IF /\ AfterPreviousEpisode(time_shift, s.sub_end_time)
       /\ HasNextSubtitle(sub_files, s.sub_index)
       /\ EnoughLeft(s.left_time, SubEnd(sub_files, s.sub_index + 1))
    THEN Place(s, sub_files, s.sub_index + 1, bdmv_index, s.j, time_shift)
    ELSE s

\* lines 678-690: a long play-item is scanned for further episodes
DefaultSiamese(s, sub_files, bdmv_index, item, marks, time_shift) ==
    IF /\ ~s.raised
       /\ item.out_time - item.in_time > Sec(SiameseItemMin)
       /\ s.sub_end_time - time_shift < Sec(SiameseEndMax)
    THEN SiameseScan(s, sub_files, bdmv_index, item, marks, 1)
    ELSE s

\* lines 692-694
DefaultItemEnd(s, item, marks) ==
    [s EXCEPT !.j = @ + Len(marks),
              !.start_time = @ + (item.out_time - item.in_time),
              !.left_time = @ - (item.out_time - item.in_time)]

\* lines 662-694: one iteration of "for i, play_item_in_out_time in enumerate(...)"
DefaultPlayItem(s, sub_files, bdmv_index, item, marks) ==
    IF s.raised THEN s
    ELSE IF marks = <<>> THEN DefaultItemEnd(s, item, marks)
    ELSE DefaultItemEnd(
             DefaultSiamese(
                 DefaultFirstMark(s, sub_files, bdmv_index,
                                  s.start_time + marks[1] - item.in_time),
                 sub_files, bdmv_index, item, marks,
                 s.start_time + marks[1] - item.in_time),
             item, marks)

RECURSIVE DefaultPlayItems(_, _, _, _, _)
DefaultPlayItems(s, sub_files, bdmv_index, chapter, i) ==
    IF i >= Len(chapter.in_out_time) THEN s
    ELSE DefaultPlayItems(
             DefaultPlayItem(s, sub_files, bdmv_index, chapter.in_out_time[i + 1],
                             MarkInfoGet(chapter, i)),
             sub_files, bdmv_index, chapter, i + 1)

\* lines 655-660: the first episode of a playlist is recorded at chapter 1, offset '0'
DefaultPlaylistStart(s, sub_files, bdmv_index, chapter) ==
    IF SubEnd(sub_files, s.sub_index) = IndexError THEN [s EXCEPT !.raised = TRUE]
    ELSE [s EXCEPT !.start_time = 0,
                   !.sub_end_time = SubEnd(sub_files, s.sub_index),
                   !.left_time = get_total_time(chapter),
                   !.configuration = Put(@, s.sub_index, Entry(bdmv_index, 1, <<0>>)),
                   !.j = 1]

\* AllSubtitlesPlaced missing the last subtitle: the walk goes on to the
\* next playlist although every subtitle has its place
AllSubtitlesPlacedLate(sub_index, sub_files) == sub_index = Len(sub_files) + 1

\* lines 696-698: sub_index += 1; if sub_index == len(self.sub_files): break
AllSubtitlesPlaced(sub_index, sub_files) == sub_index = Len(sub_files)

\* line 650: for folder, chapter, selected_mpls in self.select_mpls_from_table(table)
RECURSIVE DefaultWalk(_, _, _, _)
RECURSIVE DefaultNextPlaylist(_, _, _, _)
DefaultNextPlaylist(s, table, sub_files, row) ==
    IF s.raised THEN s
    ELSE IF AllSubtitlesPlaced(s.sub_index + 1, sub_files)
    THEN [s EXCEPT !.sub_index = @ + 1]
    ELSE DefaultWalk([s EXCEPT !.sub_index = @ + 1], table, sub_files, row + 1)

DefaultWalk(s, table, sub_files, row) ==
    IF s.raised \/ row > Len(table) THEN s
    ELSE DefaultNextPlaylist(
             DefaultPlayItems(DefaultPlaylistStart(s, sub_files, row, table[row]),
                              sub_files, row, table[row], 0),
             table, sub_files, row)

WalkStart ==
    [configuration |-> EmptyConfiguration, sub_index |-> 0, sub_end_time |-> 0,
     left_time |-> 0, start_time |-> 0, offset |-> 0, j |-> 1, chapter_index |-> 0,
     raised |-> FALSE]

\* ------------------------------------------------------------------------
\* generate_configuration, override mode (lines 590-648)
\* sub_combo_index is a dict episode -> chapter number; subtitle_index is
\* the episode whose chapter the user has just chosen.
\* ------------------------------------------------------------------------
\* AdvanceSubIndex passing over one episode index
AdvanceSubIndexTwice(s) == IF s.raised THEN s ELSE [s EXCEPT !.sub_index = @ + 2]

\* sub_index += 1 (not reached when the subtitle lookup has raised)
AdvanceSubIndex(s) == IF s.raised THEN s ELSE [s EXCEPT !.sub_index = @ + 1]

\* record episode s.sub_index, then sub_index += 1
PlaceNext(s, sub_files, bdmv_index, chapter_index, time_shift) ==
    AdvanceSubIndex(Place(s, sub_files, s.sub_index, bdmv_index, chapter_index, time_shift))

\* if sub_combo_index.get(sub_index): chapter_index = sub_combo_index[sub_index]
NextPinnedChapter(s, sub_combo_index) ==
    IF /\ ~s.raised
       /\ s.sub_index \in DOMAIN sub_combo_index
       /\ sub_combo_index[s.sub_index] # 0
    THEN [s EXCEPT !.chapter_index = sub_combo_index[s.sub_index]]
    ELSE s

\* lines 604-611 and 627-634: the pinned episode is recorded at chapter j
PlacePinned(s, sub_files, sub_combo_index, bdmv_index, time_shift) ==
    NextPinnedChapter(PlaceNext(s, sub_files, bdmv_index, s.j, time_shift),
                      sub_combo_index)

\* lines 603-622: the test made at the head of each play-item, before its marks
OverrideItemHead(s, sub_files, sub_combo_index, subtitle_index, bdmv_index) ==
    IF s.sub_index <= subtitle_index /\ s.j = s.chapter_index
    THEN PlacePinned(s, sub_files, sub_combo_index, bdmv_index, s.offset)
    ELSE IF /\ s.sub_index > subtitle_index
            /\ (AfterPreviousEpisode(s.offset, s.sub_end_time) \/ s.offset = 0)
            /\ HasNextSubtitle(sub_files, s.sub_index)
            /\ EnoughLeft(s.left_time, SubEnd(sub_files, s.sub_index + 1))
    THEN PlaceNext(s, sub_files, bdmv_index, s.j, s.offset)
    ELSE s

\* lines 624-644: for mark in play_item_marks
RECURSIVE OverrideMarks(_, _, _, _, _, _, _, _)
OverrideMarks(s, sub_files, sub_combo_index, subtitle_index, bdmv_index, item, marks, m) ==
    IF s.raised \/ m > Len(marks) THEN s
    ELSE LET time_shift == s.offset + (marks[m] - item.in_time)
             s1 == IF s.sub_index <= subtitle_index /\ s.j = s.chapter_index
                   THEN PlacePinned(s, sub_files, sub_combo_index, bdmv_index, time_shift)
                   ELSE IF /\ s.sub_index > subtitle_index
                           /\ SiameseMark(time_shift, s.sub_end_time, item, marks[m])
                   THEN PlaceNext(s, sub_files, bdmv_index, s.j, time_shift)
                   ELSE s
         IN  OverrideMarks([s1 EXCEPT !.j = @ + 1], sub_files, sub_combo_index,
                           subtitle_index, bdmv_index, item, marks, m + 1)

\* lines 645-646
OverrideItemEnd(s, item) ==
    IF s.raised THEN s
    ELSE [s EXCEPT !.offset = @ + (item.out_time - item.in_time),
                   !.left_time = @ - (item.out_time - item.in_time)]

\* lines 601-646: one iteration of "for i, play_item_in_out_time in enumerate(...)"
OverridePlayItem(s, sub_files, sub_combo_index, subtitle_index, bdmv_index, item, marks) ==
    IF s.raised THEN s
    ELSE OverrideItemEnd(
             OverrideMarks(
                 OverrideItemHead(s, sub_files, sub_combo_index, subtitle_index,
                                  bdmv_index),
                 sub_files, sub_combo_index, subtitle_index, bdmv_index, item, marks, 1),
             item)

RECURSIVE OverridePlayItems(_, _, _, _, _, _, _)
OverridePlayItems(s, sub_files, sub_combo_index, subtitle_index, bdmv_index, chapter, i) ==
    IF i >= Len(chapter.in_out_time) THEN s
    ELSE OverridePlayItems(
             OverridePlayItem(s, sub_files, sub_combo_index, subtitle_index, bdmv_index,
                              chapter.in_out_time[i + 1], MarkInfoGet(chapter, i)),
             sub_files, sub_combo_index, subtitle_index, bdmv_index, chapter, i + 1)

\* lines 597-600
OverridePlaylistStart(s, sub_files, chapter) ==
    IF SubEnd(sub_files, s.sub_index) = IndexError THEN [s EXCEPT !.raised = TRUE]
    ELSE [s EXCEPT !.offset = 0, !.j = 1,
                   !.left_time = get_total_time(chapter),
                   !.sub_end_time = SubEnd(sub_files, s.sub_index)]

\* line 592: for folder, chapter, selected_mpls in self.select_mpls_from_table(table)
RECURSIVE OverrideWalk(_, _, _, _, _, _)
OverrideWalk(s, table, sub_files, sub_combo_index, subtitle_index, row) ==
    IF s.raised \/ row > Len(table) THEN s
    ELSE OverrideWalk(
             OverridePlayItems(OverridePlaylistStart(s, sub_files, table[row]),
                               sub_files, sub_combo_index, subtitle_index, row,
                               table[row], 0),
             table, sub_files, sub_combo_index, subtitle_index, row + 1)

\* line 591: chapter_index = sub_combo_index[sub_index], a KeyError when the
\* dict has no entry for episode 0
OverrideStart(sub_combo_index) ==
    IF 0 \in DOMAIN sub_combo_index
    THEN [WalkStart EXCEPT !.chapter_index = sub_combo_index[0]]
    ELSE [WalkStart EXCEPT !.raised = TRUE]

\* ------------------------------------------------------------------------
\* generate_configuration (lines 583-700).  table is the list of the
\* selected playlists, one per BDMV row (row r has bdmv_index r);
\* NoOverride stands for sub_combo_index = None or {}.
\* The result is [raised, configuration]; when raised, nothing is returned
\* and the global CONFIGURATION is left as it was.
\* ------------------------------------------------------------------------
NoOverride == <<>>

WalkResult(s) ==
    [raised |-> s.raised,
     configuration |-> IF s.raised THEN EmptyConfiguration ELSE s.configuration]

generate_configuration(table, sub_files, sub_combo_index, subtitle_index) ==
    IF sub_combo_index # NoOverride
    THEN WalkResult(OverrideWalk(OverrideStart(sub_combo_index), table, sub_files,
                                 sub_combo_index, subtitle_index, 1))
    ELSE WalkResult(DefaultWalk(WalkStart, table, sub_files, 1))

\* ------------------------------------------------------------------------
\* generate_bluray_subtitle (lines 702-724) after it has chosen its plan.
\* A Subtitle object is the list of what it holds: one [sub_file, shift]
\* per episode file, sub_file being the index in self.sub_files and shift
\* the time added to the file's events, in milliseconds.  Subtitle.dump
\* writes the object next to the folder and next to the playlist.
\* The loop state m: sub, bdmv_index, conf, dumps, raised.
\* ------------------------------------------------------------------------
\* Subtitle(self.sub_files[k]): the file as it is, no shift
LoadSubtitle(k) == <<[sub_file |-> k, shift |-> 0]>>

\* sub.append_ass(self.sub_files[k], reduce(..., conf_tmp['offset'].split(':')))
AppendEpisode(sub, k, offset) == Append(sub, [sub_file |-> k, shift |-> ParseTime(offset)])

\* Dump keeping the last written subtitle only
DumpLast(dumps, conf, sub) ==
    <<[folder |-> conf.folder, selected_mpls |-> conf.selected_mpls, content |-> sub]>>

\* sub.dump(conf['folder'], conf['selected_mpls'])
Dump(dumps, conf, sub) ==
    Append(dumps, [folder |-> conf.folder, selected_mpls |-> conf.selected_mpls,
                   content |-> sub])

\* lines 710-721: one iteration of "for sub_index, conf_tmp in self.configuration.items()"
MergeStep(m, plan, sub_files, sub_index) ==
    LET conf_tmp == plan[sub_index]
    IN  IF conf_tmp.bdmv_index # m.bdmv_index
        THEN IF m.bdmv_index > 0
             THEN IF sub_index >= Len(sub_files)
                  THEN [m EXCEPT !.dumps = Dump(@, m.conf, m.sub), !.raised = TRUE]
                  ELSE [m EXCEPT !.dumps = Dump(@, m.conf, m.sub),
                                 !.sub = LoadSubtitle(sub_index),
                                 !.bdmv_index = conf_tmp.bdmv_index,
                                 !.conf = conf_tmp]
             ELSE [m EXCEPT !.bdmv_index = conf_tmp.bdmv_index, !.conf = conf_tmp]
        ELSE IF sub_index >= Len(sub_files)
             THEN [m EXCEPT !.raised = TRUE]
             ELSE [m EXCEPT !.sub = AppendEpisode(@, sub_index, conf_tmp.offset),
                            !.conf = conf_tmp]

\* the keys of a plan are 0 .. n-1 and are iterated in that order
RECURSIVE MergeLoop(_, _, _, _)
MergeLoop(m, plan, sub_files, sub_index) ==
    IF m.raised \/ sub_index \notin DOMAIN plan THEN m
    ELSE MergeLoop(MergeStep(m, plan, sub_files, sub_index), plan, sub_files, sub_index + 1)

\* line 722: the last playlist's subtitle is written after the loop
MergeEnd(m) ==
    [raised |-> m.raised,
     dumps |-> IF m.raised THEN m.dumps ELSE Dump(m.dumps, m.conf, m.sub)]

\* lines 707-722; Subtitle(self.sub_files[0]) raises IndexError without
\* subtitle files and self.configuration[0] raises KeyError on an empty plan
MergeSubtitles(plan, sub_files) ==
    IF sub_files = <<>> \/ 0 \notin DOMAIN plan
    THEN [raised |-> TRUE, dumps |-> <<>>]
    ELSE MergeEnd(MergeLoop([sub |-> LoadSubtitle(0), bdmv_index |-> 0, conf |-> plan[0],
                             dumps |-> <<>>, raised |-> FALSE],
                            plan, sub_files, 0))

\* ------------------------------------------------------------------------
\* Inputs: playlists and subtitle durations
\* ------------------------------------------------------------------------
\* in_time of the play-items drawn here (600 s, as on most discs)
InTime == Sec(600)

\* a playlist from the list of its play-items, each <<duration, marks>>,
\* marks being offsets from the play-item's in_time, all in ticks
MakeChapter(items) ==
    [in_out_time |-> [i \in 1..Len(items) |->
                        PlayItem(i - 1, InTime, InTime + items[i][1])],
     mark_info   |-> [i \in {n \in 0..(Len(items) - 1) : items[n + 1][2] # <<>>} |->
                        [m \in 1..Len(items[i + 1][2]) |-> InTime + items[i + 1][2][m]]]]

\* one episode: a play-item of 1 440 s with one mark at its start
Simple == MakeChapter(<< <<Sec(1440), <<0>>>> >>)

\* two episodes in one play-item of 2 880 s, marks at 0 s and 1 440 s
Siamese == MakeChapter(<< <<Sec(2880), <<0, Sec(1440)>>>> >>)

\* a play-item without marks (600 s) before the episode's play-item
MarklessHead == MakeChapter(<< <<Sec(600), <<>>>>, <<Sec(1440), <<0>>>> >>)

\* a play-item whose first mark is 10 s after its in_time
LateMark == MakeChapter(<< <<Sec(1440), <<Sec(10), Sec(720)>>>> >>)

\* two play-items, the first one tick longer than 1 000 s
TwoItems == MakeChapter(<< <<Sec(1000) + 1, <<0>>>>, <<Sec(1440), <<0, Sec(700)>>>> >>)

\* three episodes in one play-item of 4 400 s
Triple == MakeChapter(<< <<Sec(4400), <<0, Sec(1450), Sec(2900)>>>> >>)

Discs == {Simple, Siamese, MarklessHead, LateMark, TwoItems, Triple}

\* max_end_time of the subtitle files drawn here, in ticks
Durations == {Sec(200), Sec(1300), Sec(1440)}

SeqsUpTo(S, n) == UNION {[1..k -> S] : k \in 0..n}

Tables == SeqsUpTo(Discs, MaxRows) \ {<<>>}

SubLists == SeqsUpTo(Durations, MaxSubs)

\* ------------------------------------------------------------------------
\* State
\*   table          the selected playlist of each BDMV row (table1)
\*   sub_files      self.sub_files, as the files' max_end_time
\*   CONFIGURATION  the module global
\*   call           the last call of generate_configuration: its mode, its
\*                  override arguments and whether it raised
\*   configuration  self.configuration of the BluraySubtitle object at work
\*   dumps          the merged subtitles that object has written
\*   run            "none", "done" or "raised": how its merge run ended
\* Every caller builds a new BluraySubtitle object (self.configuration = {},
\* line 545), so a call of generate_configuration starts from run = "none".
\*
\* The window (BluraySubtitleGUI, radio1 checked):
\*   table2           the subtitle rows, as the files' max_end_time
\*   items            the rows hold their items (FALSE after table2.clear())
\*   sub_check_state  self.sub_check_state: 2 for a checked row, 0 otherwise
\*   connected        cellClicked is connected to on_subtitle_select
\*   altered          self.altered
\*   alive            the application runs (an exception that leaves a slot
\*                    ends it)
\*
\* An ASS merge (Subtitle.append_ass):
\*   content          self.content of the Subtitle merged into
\*   ass_files        the files it was loaded from and merged with, in order
\*
\* The duration estimate (Subtitle.max_end_time, PGS.__init__):
\*   subtitle         the subtitle file: its kind and the end times it holds
\*   max_end          what the estimate came to: "none" before the call,
\*                    then raised or the value returned
\*
\* An SRT merge (Subtitle.append_ass on .srt files, SRT.dump_file):
\*   lines            self.content.lines of the Subtitle merged into
\*   srt_files        the files it was loaded from and merged with, in
\*                    order, each with the time_shift of its merge
\*   srt_run          "open", or "raised" once a merge has raised
\*   srt_written      the entries dump_file has written, <<>> before
\*
\* The chapter text of add_chapter_to_mkv (one playlist of one play item):
\*   mark_timestamps  the marks of the play item, in ticks
\*   mkv_files        the MKV files, each the duration mkvinfo reports, in ticks
\*   writer           the locals of the loop: the number of marks done,
\*                    mkv_index, duration, episode_duration_time_sum,
\*                    chapter_id, chapter_text, and "raised" once
\*                    mkv_files[mkv_index] has raised IndexError
\*
\* A run of bdmv_remux (one volume, one episode, no special feature):
\*   pc               the step the run is at, "done" when bdmv_remux has
\*                    returned, "raised" when an exception has left it
\*   steps            the external tools started and the replacement of the
\*                    episode file, in order: the step, the tool's exit
\*                    status, and whether the dialog was canceled by then
\*   file_system      the files there are: the scratch files of the working
\*                    directory and the files of the output folder
\*   canceled         progress_dialog.wasCanceled()
\*
\* The playlists of a disc (Chapter, get_main_mpls, the mark offsets):
\*   mpls_folder      the .mpls files of BDMV/PLAYLIST as os.listdir gives
\*                    them, each with its play-item records and its marks
\*   main_mpls        what get_main_mpls came to: "none" before the call,
\*                    then the file returned, 0 for None
\*   measured         what get_total_time and get_total_time_no_repeat, or
\*                    get_index_to_m2ts_and_offset, or the mark loop of
\*                    add_chapter_to_mkv, came to on one of the files
\*
\* The episode loop of bdmv_remux (several episodes, every tool succeeds):
\*   episode_files    the .mkv files of the output folder as os.listdir
\*                    gives them, each with whether extract_pcm finds an
\*                    LPCM track in it
\*   muxing           the locals of the loop: the number of files done, i,
\*                    and for every file done whether it was remuxed and
\*                    the number of the subtitle muxed into it, 0 for none
\* ------------------------------------------------------------------------
VARIABLES table, sub_files, CONFIGURATION, call, configuration, dumps, run,
          table2, items, sub_check_state, connected, altered, alive,
          content, ass_files,
          subtitle, max_end,
          lines, srt_files, srt_run, srt_written,
          mark_timestamps, mkv_files, writer,
          pc, steps, file_system, canceled,
          mpls_folder, main_mpls, measured,
          episode_files, muxing

engine_vars == <<table, sub_files, CONFIGURATION, call, configuration, dumps, run>>

gui_vars == <<table2, items, sub_check_state, connected, altered, alive>>

ass_vars == <<content, ass_files>>

est_vars == <<subtitle, max_end>>

\* the state of the operations that take no part in the engine, the window
\* and the ASS merge
srt_vars == <<lines, srt_files, srt_run, srt_written>>

chapter_vars == <<mark_timestamps, mkv_files, writer>>

remux_vars == <<pc, steps, file_system, canceled>>

mpls_vars == <<mpls_folder, main_mpls, measured>>

pairing_vars == <<episode_files, muxing>>

rest_vars == <<est_vars, srt_vars, chapter_vars, remux_vars, mpls_vars, pairing_vars>>

vars == <<engine_vars, gui_vars, ass_vars, rest_vars>>

NoCall == [mode |-> "none", sub_combo_index |-> NoOverride, subtitle_index |-> 0,
           raised |-> FALSE]

\* BluraySubtitleGUI.__init__ and init_ui: empty tables, self.altered = False
WindowOpened ==
    /\ table2 = <<>>
    /\ items = TRUE
    /\ sub_check_state = <<>>
    /\ connected = FALSE
    /\ altered = FALSE
    /\ alive = TRUE

\* Ass.__init__ before any line is read: no style and no event
NoContent == [styles |-> <<>>, events |-> <<>>]

NoSubtitle ==
    /\ content = NoContent
    /\ ass_files = <<>>

\* no estimate is under way
NoEstimate ==
    /\ subtitle = [kind |-> "ass", ends |-> <<>>]
    /\ max_end = [state |-> "none", value |-> 0]

\* SRT.__init__ before any line is read (lines 209-212)
NoSrt ==
    /\ lines = <<>>
    /\ srt_files = <<>>
    /\ srt_run = "open"
    /\ srt_written = <<>>

\* add_chapter_to_mkv not called
NoChapterText ==
    /\ mark_timestamps = <<>>
    /\ mkv_files = <<>>
    /\ writer = [state |-> "idle"]

\* bdmv_remux not called
NoRemux ==
    /\ pc = "idle"
    /\ steps = <<>>
    /\ file_system = {}
    /\ canceled = FALSE

\* no PLAYLIST folder read
NoMpls ==
    /\ mpls_folder = <<>>
    /\ main_mpls = [state |-> "none"]
    /\ measured = [state |-> "none"]

\* the episode loop has no file to go through
NoPairing ==
    /\ episode_files = <<>>
    /\ muxing = [file |-> 0, i |-> 0, muxed |-> <<>>]

RestIdle == NoEstimate /\ NoSrt /\ NoChapterText /\ NoRemux /\ NoMpls /\ NoPairing

NoPlan ==
    /\ CONFIGURATION = EmptyConfiguration
    /\ call = NoCall
    /\ configuration = EmptyConfiguration
    /\ dumps = <<>>
    /\ run = "none"

Init ==
    /\ table \in Tables
    /\ sub_files \in SubLists
    /\ NoPlan
    /\ WindowOpened
    /\ NoSubtitle
    /\ RestIdle

\* CONFIGURATION = configuration; return configuration (lines 647-648,
\* 699-700); r is what generate_configuration came to
StoreResult(r, sub_combo_index, subtitle_index) ==
    /\ CONFIGURATION' = IF r.raised THEN CONFIGURATION ELSE r.configuration
    /\ call' = [mode |-> IF sub_combo_index # NoOverride THEN "override" ELSE "default",
                sub_combo_index |-> sub_combo_index,
                subtitle_index |-> subtitle_index,
                raised |-> r.raised]

Generate(tbl, subs, sub_combo_index, subtitle_index) ==
    StoreResult(generate_configuration(tbl, subs, sub_combo_index, subtitle_index),
                sub_combo_index, subtitle_index)

\* BluraySubtitle(...): self.configuration = {} (line 545), nothing written yet
NewObject ==
    /\ configuration' = EmptyConfiguration
    /\ dumps' = <<>>
    /\ run' = "none"

\* BluraySubtitle(...).generate_configuration(table)
GenerateDefault ==
    /\ Generate(table, sub_files, NoOverride, 0)
    /\ NewObject
    /\ UNCHANGED <<table, sub_files, gui_vars, ass_vars, rest_vars>>

\* BluraySubtitle(...).generate_configuration(table, sub_combo_index,
\* subtitle_index), as on_chapter_combo calls it: sub_combo_index holds the
\* chapters of the current plan with episode subtitle_index moved to c
ComboIndex(plan, subtitle_index, c) ==
    [e \in DOMAIN plan |-> IF e = subtitle_index THEN c ELSE plan[e].chapter_index]

\* the caller pins one episode of the default plan to chapter c
GenerateOverride ==
    /\ call.mode = "default" /\ ~call.raised
    /\ \E subtitle_index \in DOMAIN CONFIGURATION, c \in 1..MaxChapter :
           Generate(table, sub_files, ComboIndex(CONFIGURATION, subtitle_index, c),
                    subtitle_index)
    /\ NewObject
    /\ UNCHANGED <<table, sub_files, gui_vars, ass_vars, rest_vars>>

\* lines 707-724 on the plan chosen: m is what the merge loop came to
MergeRun(plan, m) ==
    /\ configuration' = plan
    /\ dumps' = m.dumps
    /\ run' = IF m.raised THEN "raised" ELSE "done"

\* lines 703-704: no stored plan, so one is generated (and stored)
FreshPlanRun(r, subs) ==
    /\ StoreResult(r, NoOverride, 0)
    /\ IF r.raised
       THEN configuration' = EmptyConfiguration /\ dumps' = <<>> /\ run' = "raised"
       ELSE MergeRun(r.configuration, MergeSubtitles(r.configuration, subs))

\* lines 705-706: the stored plan is used as it is
StoredPlanRun(subs) ==
    /\ MergeRun(CONFIGURATION, MergeSubtitles(CONFIGURATION, subs))
    /\ UNCHANGED <<CONFIGURATION, call>>

\* generate_bluray_subtitle (lines 702-724)
GenerateBluraySubtitle ==
    /\ IF CONFIGURATION = EmptyConfiguration
       THEN FreshPlanRun(generate_configuration(table, sub_files, NoOverride, 0), sub_files)
       ELSE StoredPlanRun(sub_files)
    /\ UNCHANGED <<table, sub_files, gui_vars, ass_vars, rest_vars>>

Next == GenerateDefault \/ GenerateOverride \/ GenerateBluraySubtitle

Spec == Init /\ [][Next]_vars

\* ========================================================================
\* Subtitle.append_ass on ASS files (lines 309-333)
\* A style is its Name and its other fields (one field, Fontsize, stands for
\* them); a name is the sequence of its pieces, so that 'Default1' is
\* <<"Default", "1">>; repr(style) is the style itself. An event is its
\* Style, Start and End, the times in milliseconds.
\* ========================================================================
MaxStyles == 2
MaxMerges == 2

Style(name, fontsize) == [Name |-> name, Fontsize |-> fontsize]

Event(style, start, end) == [Style |-> style, Start |-> start, End |-> end]

\* style.Name += "1" (line 317)
Suffixed(name) == Append(name, "1")

\* NameTaken looking at the first style only
NameTakenByFirst(styles, name) == styles # <<>> /\ styles[1].Name = name

\* any(style.Name == _style.Name for _style in self.content.styles) (line 316)
NameTaken(styles, name) == \E i \in 1..Len(styles) : styles[i].Name = name

\* style_info = {repr(style) for style in self.content.styles} (line 310)
StyleInfo(styles) == {styles[i] : i \in 1..Len(styles)}

\* lines 316-320: the while loop; flag tells that the suffixed style is one
\* of style_info
RECURSIVE RenameStyle(_, _, _)
RenameStyle(style, styles, style_info) ==
    IF ~NameTaken(styles, style.Name)
    THEN [style |-> style, flag |-> FALSE]
    ELSE IF Style(Suffixed(style.Name), style.Fontsize) \in style_info
         THEN [style |-> Style(Suffixed(style.Name), style.Fontsize), flag |-> TRUE]
         ELSE RenameStyle(Style(Suffixed(style.Name), style.Fontsize), styles, style_info)

\* lines 321-325: "if flag: continue", else the style is mapped and appended
KeepRenamed(st, old_name, r) ==
    IF r.flag
    THEN st
    ELSE [styles |-> Append(st.styles, r.style),
          style_info |-> st.style_info \cup {r.style},
          style_name_map |-> (old_name :> r.style.Name) @@ st.style_name_map]

\* lines 313-325: one style of new_content
MergeStyle(st, style) ==
    IF style \in st.style_info
    THEN st
    ELSE KeepRenamed(st, style.Name, RenameStyle(style, st.styles, st.style_info))

\* lines 312-325: for style in new_content.styles
RECURSIVE MergeStyles(_, _, _)
MergeStyles(st, new_styles, n) ==
    IF n = 0 THEN st
    ELSE MergeStyle(MergeStyles(st, new_styles, n - 1), new_styles[n])

\* lines 329-332: the event is shifted and its style renamed by the map
MergeEvent(event, style_name_map, time_shift) ==
    Event(IF event.Style \in DOMAIN style_name_map
          THEN style_name_map[event.Style] ELSE event.Style,
          event.Start + time_shift, event.End + time_shift)

\* lines 328-333: for event in new_content.events
MergeEvents(events, new_events, style_name_map, time_shift) ==
    events \o [i \in 1..Len(new_events) |->
                 MergeEvent(new_events[i], style_name_map, time_shift)]

MergedContent(base, new_content, st, time_shift) ==
    [styles |-> st.styles,
     events |-> MergeEvents(base.events, new_content.events, st.style_name_map,
                            time_shift)]

\* the ASS branch of append_ass (lines 309-333)
append_ass(base, new_content, time_shift) ==
    MergedContent(base, new_content,
                  MergeStyles([styles |-> base.styles,
                               style_info |-> StyleInfo(base.styles),
                               style_name_map |-> <<>>],
                              new_content.styles, Len(new_content.styles)),
                  time_shift)

\* the files: up to MaxStyles styles of distinct names, each used by one event
StyleNames == {<<"Default">>, <<"Default", "1">>}

FontSizes == {"20", "30"}

Styles == {Style(name, fontsize) : name \in StyleNames, fontsize \in FontSizes}

DistinctNames(styles) ==
    \A i, j \in 1..Len(styles) : styles[i].Name = styles[j].Name => i = j

StyleLists == {styles \in SeqsUpTo(Styles, MaxStyles) \ {<<>>} : DistinctNames(styles)}

\* Ass(f) (lines 113-169) on a file with these styles
AssFile(styles) ==
    [styles |-> styles,
     events |-> [i \in 1..Len(styles) |-> Event(styles[i].Name, 1000 * i, 1000 * i + 900)]]

AssFiles == {AssFile(styles) : styles \in StyleLists}

\* the shifts of a merge: the offsets of a plan, in milliseconds
TimeShifts == {0, 1440000}

InitAss ==
    /\ table = <<>>
    /\ sub_files = <<>>
    /\ NoPlan
    /\ WindowOpened
    /\ RestIdle
    /\ \E f \in AssFiles : content = f /\ ass_files = <<f>>

\* sub = Subtitle(self.sub_files[sub_index]) (lines 268-285, 717)
NewSubtitle ==
    /\ \E f \in AssFiles : content' = f /\ ass_files' = <<f>>
    /\ UNCHANGED <<engine_vars, gui_vars, rest_vars>>

\* sub.append_ass(self.sub_files[sub_index], offset) (line 720)
AppendAss ==
    /\ Len(ass_files) <= MaxMerges
    /\ \E f \in AssFiles, time_shift \in TimeShifts :
           /\ content' = append_ass(content, f, time_shift)
           /\ ass_files' = Append(ass_files, f)
    /\ UNCHANGED <<engine_vars, gui_vars, rest_vars>>

NextAss == NewSubtitle \/ AppendAss

SpecAss == InitAss /\ [][NextAss]_vars

\* ========================================================================
\* The window with radio1 (merge subtitles) checked: BluraySubtitleGUI
\* ========================================================================
\* what a BDMV folder holds (table1 after on_bdmv_folder_path_change)
GuiTables == SeqsUpTo({Simple, Siamese}, MaxRows)

\* what a subtitle folder holds: files of 1 300 s
GuiFolders == SeqsUpTo({Sec(1300)}, MaxSubs)

InitGui ==
    /\ table = <<>>
    /\ sub_files = <<>>
    /\ NoPlan
    /\ WindowOpened
    /\ NoSubtitle
    /\ RestIdle

\* [self.table2.item(sub_index, 1).text() for sub_index in
\*  range(self.table2.rowCount()) if self.sub_check_state[sub_index] == 2]
RECURSIVE CheckedRows(_, _, _)
CheckedRows(rows, check_state, n) ==
    IF n = 0 THEN <<>>
    ELSE IF check_state[n] = 2
         THEN Append(CheckedRows(rows, check_state, n - 1), rows[n])
         ELSE CheckedRows(rows, check_state, n - 1)

CheckedSubFiles(rows, check_state) == CheckedRows(rows, check_state, Len(rows))

\* the object a handler built is gone when the handler has returned
NoObject == NewObject

\* on_bdmv_folder_path_change (lines 1307-1371): table1 is filled from the
\* folder; with radio3 unchecked no plan is generated
OnBdmvFolderPathChange ==
    /\ alive
    /\ \E tbl \in GuiTables : table' = tbl
    /\ altered' = TRUE
    /\ NoObject
    /\ UNCHANGED <<sub_files, CONFIGURATION, call, table2, items, sub_check_state,
                   connected, alive, ass_vars, rest_vars>>

\* lines 1376-1426: the rows are filled and checked, then the plan is
\* generated; r is what generate_configuration came to, and the except
\* branch clears table2
SubtitleFolderListed(files, r) ==
    /\ table2' = files
    /\ sub_check_state' = [sub_index \in 1..Len(files) |-> 2]
    /\ sub_files' = files
    /\ StoreResult(r, NoOverride, 0)
    /\ items' = ~r.raised
    /\ connected' = (connected \/ ~r.raised)
    /\ altered' = (altered \/ ~r.raised)

\* on_subtitle_folder_path_change (lines 1373-1426)
OnSubtitleFolderPathChange ==
    /\ alive
    /\ \E files \in GuiFolders :
           SubtitleFolderListed(files, generate_configuration(table, files, NoOverride, 0))
    /\ NoObject
    /\ UNCHANGED <<table, alive, ass_vars, rest_vars>>

\* on_configuration, radio3 unchecked branch (lines 1552-1581):
\* index_table[subtitle_index] raises IndexError when the plan has an entry
\* for a row beyond the checked ones
OnConfigurationRaises(plan, rows, checked) ==
    \E subtitle_index \in 0..(rows - 1) :
        subtitle_index \in DOMAIN plan /\ subtitle_index >= checked

\* the row's check box is toggled
Toggled(check_state, row) == [check_state EXCEPT ![row] = 2 - @]

\* lines 1479-1490: the check states changed, the plan is generated again
SubtitleToggled(check_state, subs, r) ==
    /\ sub_check_state' = check_state
    /\ sub_files' = subs
    /\ StoreResult(r, NoOverride, 0)
    /\ alive' = ~(r.raised \/ OnConfigurationRaises(r.configuration, Len(table2), Len(subs)))
    /\ altered' = (altered \/ alive')

SubtitleRowClicked(check_state, subs) ==
    SubtitleToggled(check_state, subs, generate_configuration(table, subs, NoOverride, 0))

\* on_subtitle_select (lines 1476-1494), on a click that toggles a row; on a
\* cleared table item(...).checkState() raises AttributeError
OnSubtitleSelect ==
    /\ alive /\ connected /\ table2 # <<>>
    /\ IF items
       THEN \E row \in 1..Len(table2) :
                SubtitleRowClicked(Toggled(sub_check_state, row),
                                   CheckedSubFiles(table2, Toggled(sub_check_state, row)))
       ELSE /\ alive' = FALSE
            /\ UNCHANGED <<sub_check_state, sub_files, CONFIGURATION, call, altered>>
    /\ NoObject
    /\ UNCHANGED <<table, table2, items, connected, ass_vars, rest_vars>>

\* lines 1878-1886: generate_bluray_subtitle on the checked files, inside try
MergeChecked(subs) ==
    /\ sub_files' = subs
    /\ IF CONFIGURATION = EmptyConfiguration
       THEN FreshPlanRun(generate_configuration(table, subs, NoOverride, 0), subs)
       ELSE StoredPlanRun(subs)
    /\ altered' = FALSE
    /\ alive' = alive

\* generate_subtitle (lines 1870-1886); on a cleared table the list of the
\* checked files raises AttributeError outside the try
GenerateSubtitle ==
    /\ alive
    /\ IF ~items /\ CheckedSubFiles(table2, sub_check_state) # <<>>
       THEN /\ alive' = FALSE
            /\ NoObject
            /\ UNCHANGED <<sub_files, CONFIGURATION, call, altered>>
       ELSE MergeChecked(CheckedSubFiles(table2, sub_check_state))
    /\ UNCHANGED <<table, table2, items, sub_check_state, connected, ass_vars, rest_vars>>

NextGui ==
    \/ OnBdmvFolderPathChange
    \/ OnSubtitleFolderPathChange
    \/ OnSubtitleSelect
    \/ GenerateSubtitle

SpecGui == InitGui /\ [][NextGui]_vars

\* ========================================================================
\* The duration estimate: Subtitle.max_end_time (lines 352-369) and
\* PGS.__init__ (lines 240-251).  A subtitle file is its kind ("ass", "srt"
\* or "sup") and the list of the end times it holds, in ticks: the End of
\* each event, the end of each SRT entry, the timestamp of each PGS segment.
\* ========================================================================
MaxEvents == 3

OutlierMargin == 300

PgsTimestampLimit == 18000

EndValue(value) == [state |-> "returned", value |-> value]

\* max() of an empty sequence raises ValueError; reading self.content of a
\* Subtitle that has none raises AttributeError
EndError == [state |-> "raised", value |-> 0]

\* set(...) of the end times
EndSet(ends) == {ends[i] : i \in 1..Len(ends)}

\* max(end_set) of a set that is not empty
SetMax(end_set) == CHOOSE x \in end_set : \A y \in end_set : y <= x

\* lines 366-369 (and 248-251): the second-largest end time is returned when
\* it lies more than 300 s below the largest
OutlierGuard(largest, max_end_1) ==
    IF max_end_1 < largest - Sec(OutlierMargin)
    THEN EndValue(max_end_1)
    ELSE EndValue(largest)

\* lines 363-369 (and 245-251): max(end_set), end_set.remove(max_end),
\* max(end_set)
GuardedMax(end_set) ==
    IF end_set = {} \/ end_set \ {SetMax(end_set)} = {}
    THEN EndError
    ELSE OutlierGuard(SetMax(end_set), SetMax(end_set \ {SetMax(end_set)}))

\* iter_timestamp (lines 253-262): the timestamps below 18 000 s
PgsTimestamps(ends) == {t \in EndSet(ends) : t < Sec(PgsTimestampLimit)}

\* PGS.__init__ (lines 240-251)
PgsMaxEnd(ends) == GuardedMax(PgsTimestamps(ends))

\* lines 353-360: the largest end of the SRT entries, without any guard
SrtMaxEnd(ends) == IF ends = <<>> THEN EndError ELSE EndValue(SetMax(EndSet(ends)))

\* lines 361-363 on a .sup file: "if self.max_end: return self.max_end", and
\* self.content.events raises AttributeError when max_end is 0
SupMaxEnd(pgs) ==
    IF pgs.state = "raised" \/ pgs.value = 0 THEN EndError ELSE pgs

\* Subtitle(file_path).max_end_time() (lines 268-285 and 352-369)
max_end_time(file) ==
    IF file.kind = "srt" THEN SrtMaxEnd(file.ends)
    ELSE IF file.kind = "sup" THEN SupMaxEnd(PgsMaxEnd(file.ends))
    ELSE GuardedMax(EndSet(file.ends))

\* the files: up to MaxEvents end times each
EndTimes == {0, Sec(1380), Sec(1390), Sec(4000), Sec(20000)}

SubtitleFiles ==
    {[kind |-> kind, ends |-> ends] :
        kind \in {"ass", "srt", "sup"}, ends \in SeqsUpTo(EndTimes, MaxEvents)}

InitEnd ==
    /\ table = <<>>
    /\ sub_files = <<>>
    /\ NoPlan
    /\ WindowOpened
    /\ NoSubtitle
    /\ NoSrt
    /\ NoChapterText
    /\ NoRemux
    /\ NoMpls
    /\ NoPairing
    /\ subtitle \in SubtitleFiles
    /\ max_end = [state |-> "none", value |-> 0]

\* Subtitle(path).max_end_time(), as on_subtitle_folder_path_change (line
\* 1398) and generate_configuration call it
MaxEndTime ==
    /\ max_end.state = "none"
    /\ max_end' = max_end_time(subtitle)
    /\ UNCHANGED <<subtitle, engine_vars, gui_vars, ass_vars, srt_vars, chapter_vars,
                   remux_vars, mpls_vars,
                   pairing_vars>>

SpecEnd == InitEnd /\ [][MaxEndTime]_vars

\* ========================================================================
\* Subtitle.append_ass on SRT files (lines 300-308) and SRT.dump_file (lines
\* 232-237).  An entry is [index, start, end, text]; a time is the string
\* of the file: its ':'-separated fields as for get_time_str, and the
\* character that stands before the milliseconds ("," or ".", "" when the
\* string has none).
\* ========================================================================
MaxEntries == 2

\* lines 303-306: the time of the string in milliseconds, replace(',', '.')
\* and the reduce over its fields, then get_time_str(start_time + time_shift),
\* which returns '0' or 'HH:MM:SS.mmm' with a period
ShiftedTime(time, time_shift) ==
    LET shifted == get_time_str(45 * (ParseTime(time.fields) + time_shift))
    IN  [fields |-> shifted, decimal |-> IF Len(shifted) = 1 THEN "" ELSE "."]

\* ShiftedLine without line[0] += index
ShiftedLineUnnumbered(line, index, time_shift) ==
    [index |-> line.index,
     start |-> ShiftedTime(line.start, time_shift),
     end |-> ShiftedTime(line.end, time_shift),
     text |-> line.text]

\* lines 302-306: one incoming entry
ShiftedLine(line, index, time_shift) ==
    [index |-> line.index + index,
     start |-> ShiftedTime(line.start, time_shift),
     end |-> ShiftedTime(line.end, time_shift),
     text |-> line.text]

\* the SRT branch of append_ass (lines 300-307) on a base that has entries;
\* index = self.content.lines[-1][0]
append_srt(base_lines, new_lines, time_shift) ==
    base_lines \o [i \in 1..Len(new_lines) |->
                       ShiftedLine(new_lines[i], base_lines[Len(base_lines)].index, time_shift)]

\* SRT.dump_file (lines 232-237) with no deleted line: the index, the line
\* 'start --> end' and the text of every entry
dump_file(content_lines) == content_lines

\* the files SRT.__init__ reads (lines 208-229): entries numbered 1..n,
\* the first one starting at 0, the times being line[0:12] and line[17:29]
\* of a line 'HH:MM:SS,mmm --> HH:MM:SS,mmm', where the second pattern of
\* line 217 takes any character in the place of the comma
SrtFiles ==
    LET SrtTime(ms, decimal) ==
            [fields |-> <<(ms \div 3600000) * 1000, ((ms \div 60000) % 60) * 1000, ms % 60000>>,
             decimal |-> decimal]
        SrtLine(i, decimal) ==
            [index |-> i,
             start |-> SrtTime(1000 * (i - 1), decimal),
             end |-> SrtTime(1000 * (i - 1) + 900, decimal),
             text |-> i]
    IN  {[i \in 1..n |-> SrtLine(i, decimal)] : n \in 0..MaxEntries, decimal \in {",", "."}}

InitSrt ==
    /\ table = <<>>
    /\ sub_files = <<>>
    /\ NoPlan
    /\ WindowOpened
    /\ NoSubtitle
    /\ NoEstimate
    /\ NoChapterText
    /\ NoRemux
    /\ NoMpls
    /\ NoPairing
    /\ \E f \in SrtFiles :
           /\ lines = f
           /\ srt_files = <<[lines |-> f, time_shift |-> 0]>>
    /\ srt_run = "open"
    /\ srt_written = <<>>

\* sub.append_ass(self.sub_files[sub_index], offset) (line 720) on .srt
\* files; self.content.lines[-1] raises IndexError on a base without entry
AppendSrt ==
    /\ srt_run = "open"
    /\ Len(srt_files) <= MaxMerges
    /\ IF lines = <<>>
       THEN srt_run' = "raised" /\ UNCHANGED <<lines, srt_files>>
       ELSE /\ \E f \in SrtFiles, time_shift \in TimeShifts :
                  /\ lines' = append_srt(lines, f, time_shift)
                  /\ srt_files' = Append(srt_files, [lines |-> f, time_shift |-> time_shift])
            /\ srt_run' = srt_run
    /\ srt_written' = <<>>
    /\ UNCHANGED <<engine_vars, gui_vars, ass_vars, est_vars, chapter_vars, remux_vars,
                   mpls_vars, pairing_vars>>

\* sub.dump(...) (lines 335-339): self.content.dump_file(f)
DumpSrt ==
    /\ srt_run = "open"
    /\ srt_written' = dump_file(lines)
    /\ UNCHANGED <<lines, srt_files, srt_run, engine_vars, gui_vars, ass_vars, est_vars,
                   chapter_vars, remux_vars, mpls_vars,
                   pairing_vars>>

NextSrt == AppendSrt \/ DumpSrt

SpecSrt == InitSrt /\ [][NextSrt]_vars

\* ========================================================================
\* The chapter text of BluraySubtitle.add_chapter_to_mkv (lines 726-782) for
\* one playlist of one play item that starts at InTime.  Times are in ticks;
\* a string is the sequence of its characters.  A chapter is the pair of
\* lines 'CHAPTER<chapter_id_str>=<real_time_str>' and
\* 'CHAPTER<chapter_id_str>NAME=Chapter <chapter_id_str>'.
\* ========================================================================
MaxMarks == 3

\* str(n) of an int n >= 0
RECURSIVE str(_)
str(n) ==
    LET digit == <<"0", "1", "2", "3", "4", "5", "6", "7", "8", "9">>[(n % 10) + 1]
    IN  IF n < 10 THEN <<digit>> ELSE str(n \div 10) \o <<digit>>

\* the digits str() gives after the point for the float rest / 45000 below 1:
\* those of its decimal expansion, one at least and as many as a float
\* holds at most
RECURSIVE FractionDigits(_, _)
FractionDigits(rest, n) ==
    str((10 * rest) \div TicksPerSecond)
        \o (IF (10 * rest) % TicksPerSecond = 0 \/ n = 1 THEN <<>>
            ELSE FractionDigits((10 * rest) % TicksPerSecond, n - 1))

\* lines 761-763; seconds = real_time % 60.  str(seconds) is '0' for the
\* int 0 and 'w.f' for a float; [:6] keeps six characters at most; the
\* slice '00.000'[len(seconds_str) - 6:] holds the last 6 - len characters
\* and, for len = 6, is the slice [0:], the whole of '00.000'
seconds_str(seconds, is_int) ==
    LET string == (IF seconds < Sec(10) THEN <<"0">> ELSE <<>>)
                      \o (IF is_int THEN str(seconds)
                          ELSE str(seconds \div TicksPerSecond) \o <<".">>
                                   \o FractionDigits(seconds % TicksPerSecond, 17))
        first_six == SubSeq(string, 1, IF Len(string) < 6 THEN Len(string) ELSE 6)
    IN  first_six \o SubSeq(<<"0", "0", ".", "0", "0", "0">>,
                            IF Len(first_six) = 6 THEN 1 ELSE Len(first_six) + 1, 6)

\* ('0' if n < 10 else '') + str(n) (lines 758, 764-765)
TwoDigits(n) == (IF n < 10 THEN <<"0">> ELSE <<>>) \o str(n)

\* lines 759-766; hours = int(real_time // 3600),
\* minutes = int((real_time % 3600) // 60)
real_time_str(real_time, is_int) ==
    TwoDigits(real_time \div Sec(3600)) \o <<":">>
        \o TwoDigits((real_time % Sec(3600)) \div Sec(60)) \o <<":">>
        \o seconds_str(real_time % Sec(60), is_int)

\* lines 757-768: the mark is numbered and its two lines are appended
AppendChapter(w, real_time, is_int) ==
    [w EXCEPT !.mark = @ + 1,
              !.chapter_id = @ + 1,
              !.chapter_text = Append(@, [chapter_id_str |-> TwoDigits(w.chapter_id + 1),
                                          real_time_str |-> real_time_str(real_time, is_int)])]

\* lines 743-755: the mark ends the episode; chapter.txt is written,
\* chapter_id and real_time become 0, and the next file is asked for its
\* duration, which raises IndexError past the last file
NextEpisode(w, real_time) ==
    IF w.mkv_index + 1 >= Len(mkv_files)
    THEN [w EXCEPT !.state = "raised"]
    ELSE AppendChapter([w EXCEPT !.chapter_id = 0,
                                 !.episode_duration_time_sum = @ + real_time,
                                 !.mkv_index = @ + 1,
                                 !.duration = mkv_files[w.mkv_index + 2],
                                 !.chapter_text = <<>>],
                       0, TRUE)

\* lines 740-768: one mark; abs(real_time - duration) < 0.1
MarkStep(w, real_time) ==
    IF real_time - w.duration < 4500 /\ w.duration - real_time < 4500
    THEN NextEpisode(w, real_time)
    ELSE AppendChapter(w, real_time, FALSE)

\* the marks of the play item: at its start, at 0.125 s, 1/3 s, 12.345 s,
\* 720 s, 720.5 s and 1441.25 s (times below a minute or multiples of 1/8 s,
\* for which real_time % 60 is the float nearest to the exact value)
MarkTimes ==
    {InTime + t : t \in {0, 5625, 15000, 555525, Sec(720), Sec(720) + 22500,
                         Sec(1441) + 11250}}

InitChapter ==
    /\ table = <<>>
    /\ sub_files = <<>>
    /\ NoPlan
    /\ WindowOpened
    /\ NoSubtitle
    /\ NoEstimate
    /\ NoSrt
    /\ NoRemux
    /\ NoMpls
    /\ NoPairing
    /\ mark_timestamps \in {seq \in SeqsUpTo(MarkTimes, MaxMarks) \ {<<>>} :
                               \A i \in 1..(Len(seq) - 1) : seq[i] < seq[i + 1]}
    /\ mkv_files \in SeqsUpTo({Sec(720) + 22500, Sec(3000)}, 2) \ {<<>>}
    /\ writer = [state |-> "open", mark |-> 0, mkv_index |-> 0, duration |-> mkv_files[1],
                 episode_duration_time_sum |-> 0, chapter_id |-> 0, chapter_text |-> <<>>]

\* one turn of "for mark_timestamp in mark_timestamps" (lines 739-768);
\* play_item_duration_time_sum is 0 in the first play item
WriteMark ==
    /\ writer.state = "open"
    /\ writer.mark < Len(mark_timestamps)
    /\ writer' = MarkStep(writer, (mark_timestamps[writer.mark + 1] - InTime)
                                      - writer.episode_duration_time_sum)
    /\ UNCHANGED <<mark_timestamps, mkv_files, engine_vars, gui_vars, ass_vars, est_vars,
                   srt_vars, remux_vars, mpls_vars,
                   pairing_vars>>

SpecChapter == InitChapter /\ [][WriteMark]_vars

\* ========================================================================
\* BluraySubtitle.bdmv_remux (lines 990-1109) with the add_chapter_to_mkv it
\* calls (lines 726-782), for a plan of one volume and one episode on a disc
\* without special features: the split, the chapters of the episode, the
\* PCM track taken out and encoded, the remux, and the episode file replaced
\* by the remux output.  Every tool is started with subprocess.Popen and
\* waited for; its exit status is not read.
\* ========================================================================
\* what a tool run comes to: exit status 0 with its output written, a
\* warning status with the output written, an error status without output
Outcomes ==
    {[status |-> 0, output |-> TRUE], [status |-> 1, output |-> TRUE],
     [status |-> 2, output |-> FALSE]}

\* subprocess.Popen(...).wait() of a tool, with the outcome it comes to
Ran(tool, outcome) == [step |-> tool, status |-> outcome.status, canceled |-> canceled]

InitRemux ==
    /\ table = <<>>
    /\ sub_files = <<>>
    /\ NoPlan
    /\ WindowOpened
    /\ NoSubtitle
    /\ NoEstimate
    /\ NoSrt
    /\ NoChapterText
    /\ NoMpls
    /\ NoPairing
    /\ pc = "split"
    /\ steps = <<>>
    /\ file_system = {}
    /\ canceled = FALSE

\* lines 1005-1012: mkvmerge --split chapters:... -o BD_Vol_xxx.mkv, then
\* setValue and processEvents
Split ==
    /\ pc = "split"
    /\ \E o \in Outcomes :
           /\ steps' = Append(steps, Ran("mkvmerge --split", o))
           /\ file_system' = file_system \cup (IF o.output THEN {"episode.mkv"} ELSE {})
    /\ pc' = "get_duration"
    /\ UNCHANGED <<canceled, engine_vars, gui_vars, ass_vars, est_vars, srt_vars, chapter_vars,
                   mpls_vars, pairing_vars>>

\* lines 1015-1016, 729 and 431-440: mkv_files lists the .mkv files of the
\* output folder, mkv_files[0] raises IndexError when there is none;
\* get_duration runs mkvinfo -r mkvinfo.txt and opens mkvinfo.txt, which
\* raises FileNotFoundError when the file is not there
GetDuration ==
    /\ pc = "get_duration"
    /\ IF "episode.mkv" \notin file_system
       THEN pc' = "raised" /\ UNCHANGED <<steps, file_system>>
       ELSE \E o \in Outcomes :
                /\ steps' = Append(steps, Ran("mkvinfo", o))
                /\ file_system' = file_system \cup (IF o.output THEN {"mkvinfo.txt"} ELSE {})
                /\ pc' = IF o.output THEN "add_chapter" ELSE "raised"
    /\ UNCHANGED <<canceled, engine_vars, gui_vars, ass_vars, est_vars, srt_vars, chapter_vars,
                   mpls_vars, pairing_vars>>

\* lines 775-780 and 442-444: chapter.txt is written and mkvpropedit edits
\* the episode file (self.checked is True, line 1014), then setValue and
\* processEvents
AddChapter ==
    /\ pc = "add_chapter"
    /\ \E o \in Outcomes : steps' = Append(steps, Ran("mkvpropedit", o))
    /\ file_system' = file_system \cup {"chapter.txt"}
    /\ pc' = "extract_pcm"
    /\ UNCHANGED <<canceled, engine_vars, gui_vars, ass_vars, est_vars, srt_vars, chapter_vars,
                   mpls_vars, pairing_vars>>

\* lines 1025-1027 and 1130-1162, extract_pcm: tsMuxeR lists the tracks,
\* .meta is written, and when there is an LPCM track tsMuxeR .meta takes it
\* out as a .wav file; without LPCM track the episode is left as it is
\* (line 1027) and the loops over the special features find nothing
ExtractPcm ==
    /\ pc = "extract_pcm"
    /\ \E probe \in Outcomes, demux \in Outcomes, lpcm \in BOOLEAN :
           IF probe.output /\ lpcm
           THEN /\ steps' = steps \o <<Ran("tsMuxeR", probe), Ran("tsMuxeR .meta", demux)>>
                /\ file_system' = file_system \cup {".meta"}
                                  \cup (IF demux.output THEN {"episode.wav"} ELSE {})
                /\ pc' = IF demux.output THEN "flac" ELSE "remux"
           ELSE /\ steps' = Append(steps, Ran("tsMuxeR", probe))
                /\ file_system' = file_system \cup {".meta"}
                /\ pc' = "done"
    /\ UNCHANGED <<canceled, engine_vars, gui_vars, ass_vars, est_vars, srt_vars, chapter_vars,
                   mpls_vars, pairing_vars>>

\* lines 1032-1038: flac -8 on the .wav file, os.remove of the .wav file,
\* then setValue and processEvents
Flac ==
    /\ pc = "flac"
    /\ \E o \in Outcomes :
           /\ steps' = Append(steps, Ran("flac", o))
           /\ file_system' = (file_system \ {"episode.wav"})
                           \cup (IF o.output THEN {"episode.flac"} ELSE {})
    /\ pc' = "remux"
    /\ UNCHANGED <<canceled, engine_vars, gui_vars, ass_vars, est_vars, srt_vars, chapter_vars,
                   mpls_vars, pairing_vars>>

\* lines 1040-1057: generate_remux_cmd raises IndexError when the track has
\* no .flac file (line 1120); the remux command writes episode(1).mkv, then
\* os.remove(mkv_file) and os.rename(output_file, mkv_file), which raises
\* FileNotFoundError when there is no output file, then the .flac file is
\* removed; lines 1059-1109 find no special feature
Remux ==
    /\ pc = "remux"
    /\ IF "episode.flac" \notin file_system
       THEN pc' = "raised" /\ UNCHANGED <<steps, file_system>>
       ELSE \E o \in Outcomes :
                /\ steps' = steps \o <<Ran("mkvmerge -o", o),
                                       [step |-> "os.remove, os.rename", status |-> 0,
                                        canceled |-> canceled]>>
                /\ file_system' = file_system \ (IF o.output THEN {"episode.flac"}
                                                  ELSE {"episode.mkv"})
                /\ pc' = IF o.output THEN "done" ELSE "raised"
    /\ UNCHANGED <<canceled, engine_vars, gui_vars, ass_vars, est_vars, srt_vars, chapter_vars,
                   mpls_vars, pairing_vars>>

\* the user presses the dialog's cancel button; QCoreApplication.processEvents
\* (lines 1012, 779, 1038) delivers it, canceling the dialog
Cancel ==
    /\ pc \notin {"done", "raised"}
    /\ ~canceled
    /\ steps # <<>>
    /\ steps[Len(steps)].step \in {"mkvmerge --split", "mkvpropedit", "flac"}
    /\ canceled' = TRUE
    /\ UNCHANGED <<pc, steps, file_system, engine_vars, gui_vars, ass_vars, est_vars, srt_vars,
                   chapter_vars, mpls_vars,
                   pairing_vars>>

NextRemux == Split \/ GetDuration \/ AddChapter \/ ExtractPcm \/ Flac \/ Remux \/ Cancel

SpecRemux == InitRemux /\ [][NextRemux]_vars

\* ========================================================================
\* The playlists of a disc: Chapter.__init__ (lines 34-89) on the play-item
\* records and the marks of an .mpls file, get_total_time_no_repeat (lines
\* 98-99), get_main_mpls (lines 557-570), and the walk over
\* chapter.mark_info.items() by which get_index_to_m2ts_and_offset (lines
\* 1993-2009) and add_chapter_to_mkv (lines 735-771) compute the time of
\* every mark.  A play-item record has length 0 when it is empty; a mark is
\* [ref_to_play_item_id, mark_timestamp].  A decoded playlist has, besides
\* in_out_time and mark_info, the keys of mark_info in the order a dict
\* keeps them: that of their first mark in the file.
\* ========================================================================
MaxFiles == 2

\* lines 78-89: the keys of mark_info after the first n marks of the file
RECURSIVE MarkKeys(_, _)
MarkKeys(file_marks, n) ==
    IF n = 0 THEN <<>>
    ELSE IF \E m \in 1..(n - 1) :
                file_marks[m].ref_to_play_item_id = file_marks[n].ref_to_play_item_id
         THEN MarkKeys(file_marks, n - 1)
         ELSE Append(MarkKeys(file_marks, n - 1), file_marks[n].ref_to_play_item_id)

\* Chapter(file_path) (lines 34-89): the records of length 0 are left out
\* of in_out_time (lines 68-74); a mark is appended to the list of its
\* ref_to_play_item_id (lines 85-88)
Chapter(mpls) ==
    [in_out_time |-> SelectSeq([n \in 1..Len(mpls.play_items) |->
                                   IF mpls.play_items[n].length = 0 THEN <<>>
                                   ELSE PlayItem(mpls.play_items[n].clip_information_filename,
                                                 mpls.play_items[n].in_time,
                                                 mpls.play_items[n].out_time)],
                               LAMBDA x : x # <<>>),
     mark_info |-> [r \in {mpls.marks[m].ref_to_play_item_id : m \in 1..Len(mpls.marks)} |->
                       LET of_r == SelectSeq(mpls.marks,
                                             LAMBDA x : x.ref_to_play_item_id = r)
                       IN  [m \in 1..Len(of_r) |-> of_r[m].mark_timestamp]],
     keys |-> MarkKeys(mpls.marks, Len(mpls.marks))]

\* Chapter.get_total_time_no_repeat (lines 98-99), in ticks: the dict
\* {x[0]: duration} keeps for every clip the duration of its last play-item
get_total_time_no_repeat(chapter) ==
    SumDurations([n \in 1..Len(chapter.in_out_time) |->
                     IF \E m \in (n + 1)..Len(chapter.in_out_time) :
                            chapter.in_out_time[m].clip_information_filename
                                = chapter.in_out_time[n].clip_information_filename
                     THEN PlayItem(0, 0, 0)
                     ELSE chapter.in_out_time[n]],
                 Len(chapter.in_out_time))

\* ------------------------------------------------------------------------
\* The floats of get_total_time and get_total_time_no_repeat (lines 95-99).
\* A float is a binary64 number that is not negative: exp is the exponent
\* of its leading bit and frac its 53 significant bits, leading bit first;
\* 0.0 has no bit set.  Every operation rounds to nearest, ties to even.
\* ------------------------------------------------------------------------
FloatZero == [exp |-> 0 - 1022, frac |-> [i \in 1..53 |-> 0]]

\* the float nearest to the number whose bits from 2^exp downwards are
\* long, followed by bits of which one is set when sticky
RoundBits(exp, long, sticky) ==
    LET Rounded(bits) ==
            LET Get(i) == IF i <= Len(bits) THEN bits[i] ELSE 0
                up == /\ Get(54) = 1
                      /\ \/ sticky
                         \/ \E i \in 55..Len(bits) : bits[i] = 1
                         \/ Get(53) = 1
                last_zero == IF \E i \in 1..53 : Get(i) = 0
                             THEN CHOOSE i \in 1..53 :
                                      Get(i) = 0 /\ \A j \in (i + 1)..53 : Get(j) = 1
                             ELSE 0
            IN  IF ~up THEN [exp |-> exp, frac |-> SubSeq(bits \o FloatZero.frac, 1, 53)]
                ELSE IF last_zero = 0
                     THEN [exp |-> exp + 1,
                           frac |-> SubSeq(<<1>> \o FloatZero.frac, 1, 53)]
                     ELSE [exp |-> exp,
                           frac |-> SubSeq(SubSeq(bits, 1, last_zero - 1) \o <<1>>
                                               \o FloatZero.frac, 1, 53)]
    IN  CHOOSE float \in {Rounded(bits) : bits \in {SubSeq(long, 1, Len(long))}} : TRUE

\* ticks / 45000 (lines 96 and 99): the true division of two ints
FloatOfTicks(ticks) ==
    LET rem[k \in 0..70] == IF k = 0 THEN ticks % TicksPerSecond
                            ELSE (2 * rem[k - 1]) % TicksPerSecond
        Bit(j) == IF j >= 0 THEN ((ticks \div TicksPerSecond) \div (2 ^ j)) % 2
                  ELSE (2 * rem[0 - j - 1]) \div TicksPerSecond
        exp == CHOOSE j \in (0 - 16)..15 :
                   Bit(j) = 1 /\ \A h \in (j + 1)..15 : Bit(h) = 0
    IN  IF ticks = 0 THEN FloatZero
        ELSE CHOOSE float \in {RoundBits(e, [i \in 1..54 |-> Bit(e - i + 1)],
                                         rem[53 - e] # 0) : e \in {exp}} : TRUE

\* x + y of two floats
FloatAdd(x, y) ==
    LET Sum(hi, lo) ==
            LET shift == hi.exp - lo.exp
                n == 53 + shift
                a(i) == IF i <= 53 THEN hi.frac[i] ELSE 0
                b(i) == IF i <= shift THEN 0 ELSE lo.frac[i - shift]
                carry[i \in 1..(n + 1)] ==
                    IF i > 53 THEN 0 ELSE (a(i) + b(i) + carry[i + 1]) \div 2
                total == [i \in 1..(n + 1) |->
                             IF i = 1 THEN carry[1]
                             ELSE (a(i - 1) + b(i - 1) + carry[i]) % 2]
            IN  IF lo = FloatZero THEN hi
                ELSE IF carry[1] = 1 THEN RoundBits(hi.exp + 1, total, FALSE)
                ELSE RoundBits(hi.exp, Tail(total), FALSE)
    IN  CHOOSE float \in {IF u.exp >= v.exp THEN Sum(u, v) ELSE Sum(v, u) :
                              u \in {x}, v \in {y}} : TRUE

\* sum(...) of the first n floats: from the int 0, one after the other
RECURSIVE FloatSum(_, _)
FloatSum(floats, n) ==
    IF n = 0 THEN FloatZero ELSE FloatAdd(FloatSum(floats, n - 1), floats[n])

\* the float returned by Chapter.get_total_time (lines 95-96)
TotalTime(chapter) ==
    FloatSum([n \in 1..Len(chapter.in_out_time) |->
                 FloatOfTicks(chapter.in_out_time[n].out_time
                              - chapter.in_out_time[n].in_time)],
             Len(chapter.in_out_time))

\* the float returned by Chapter.get_total_time_no_repeat (lines 98-99):
\* the values of the dict come in the order in which the clips first
\* appear, and the value of a clip is the duration of its last play-item;
\* the other play-items count 0.0, which leaves a sum as it is
TotalTimeNoRepeat(chapter) ==
    LET clip(n) == chapter.in_out_time[n].clip_information_filename
        last(n) == CHOOSE m \in n..Len(chapter.in_out_time) :
                       /\ clip(m) = clip(n)
                       /\ \A h \in (m + 1)..Len(chapter.in_out_time) : clip(h) # clip(n)
    IN  FloatSum([n \in 1..Len(chapter.in_out_time) |->
                     IF \E m \in 1..(n - 1) : clip(m) = clip(n) THEN FloatZero
                     ELSE FloatOfTicks(chapter.in_out_time[last(n)].out_time
                                       - chapter.in_out_time[last(n)].in_time)],
                 Len(chapter.in_out_time))

\* line 566: get_total_time_no_repeat() * (1 + marks / 5), in units of
\* 1 / (5 * 45000), marks being the sum of the lengths of the lists of
\* mark_info; the indicators of two playlists drawn here are equal or
\* differ by far more than the floats of the code round
Indicator(chapter) ==
    get_total_time_no_repeat(chapter)
        * (5 + Cardinality(UNION {{<<r, m>> : m \in DOMAIN chapter.mark_info[r]} :
                                      r \in DOMAIN chapter.mark_info}))

\* get_main_mpls (lines 557-570) after the first n files of os.listdir:
\* selected_mpls is the number of the file in the listing, 0 for None
RECURSIVE get_main_mpls(_, _)
get_main_mpls(folder_files, n) ==
    IF n = 0 THEN [selected_mpls |-> 0, max_indicator |-> 0]
    ELSE IF Indicator(Chapter(folder_files[n])) > get_main_mpls(folder_files, n - 1).max_indicator
         THEN [selected_mpls |-> n, max_indicator |-> Indicator(Chapter(folder_files[n]))]
         ELSE get_main_mpls(folder_files, n - 1)

\* The loop over chapter.mark_info.items() of get_index_to_m2ts_and_offset
\* (lines 1993-2009) and of add_chapter_to_mkv (lines 735-771) after the
\* first n keys: in_out_time[ref_to_play_item_id] raises IndexError when the
\* key is no index of the list; the time of a mark is the running sum plus
\* (mark_timestamp - in_time); the running sum then grows by the duration
\* of the play-item of the key
RECURSIVE MarkWalk(_, _)
MarkWalk(chapter, n) ==
    IF n = 0 THEN [raised |-> FALSE, offset |-> 0, index_to_offset |-> <<>>]
    ELSE LET w == MarkWalk(chapter, n - 1)
             ref_to_play_item_id == chapter.keys[n]
         IN  IF w.raised \/ ref_to_play_item_id + 1 > Len(chapter.in_out_time)
             THEN [w EXCEPT !.raised = TRUE]
             ELSE LET play_item == chapter.in_out_time[ref_to_play_item_id + 1]
                      mark_timestamps_of == chapter.mark_info[ref_to_play_item_id]
                  IN  [raised |-> FALSE,
                       offset |-> w.offset + play_item.out_time - play_item.in_time,
                       index_to_offset |->
                           w.index_to_offset
                           \o [m \in 1..Len(mark_timestamps_of) |->
                                  w.offset + mark_timestamps_of[m] - play_item.in_time]]

\* the whole loop on one playlist, as the state of a finished call
MarkTimesOf(by, n, mpls) ==
    IF MarkWalk(Chapter(mpls), Len(Chapter(mpls).keys)).raised
    THEN [state |-> "raised", by |-> by, mpls |-> n]
    ELSE [state |-> "returned", by |-> by, mpls |-> n,
          index_to_offset |->
              MarkWalk(Chapter(mpls), Len(Chapter(mpls).keys)).index_to_offset]

\* the playlists of the discs: one play-item with two marks; a clip played
\* twice with other times; an empty record before, or between, the
\* play-items; a play-item without mark before a marked one; the marks of
\* the second play-item stored before those of the first; no play-item; a
\* clip played a second time after a first play-item of no length.  The
\* duration of a record is given in tenths of a second.
MplsFiles ==
    LET Record(clip, in_time, tenths) ==
            [length |-> 1, clip_information_filename |-> clip,
             in_time |-> in_time,
             out_time |-> in_time + tenths * (TicksPerSecond \div 10)]
        EmptyRecord == [length |-> 0, clip_information_filename |-> 0,
                        in_time |-> 0, out_time |-> 0]
        Mark(ref, mark_timestamp) ==
            [ref_to_play_item_id |-> ref, mark_timestamp |-> mark_timestamp]
    IN  { [play_items |-> <<Record(1, InTime, 14400)>>,
           marks |-> <<Mark(0, InTime), Mark(0, InTime + Sec(700))>>],
          [play_items |-> <<Record(1, InTime, 10000), Record(1, InTime + Sec(100), 2000)>>,
           marks |-> <<Mark(0, InTime), Mark(1, InTime + Sec(100))>>],
          [play_items |-> <<EmptyRecord, Record(1, InTime, 6000), Record(2, Sec(5000), 6000)>>,
           marks |-> <<Mark(1, InTime)>>],
          [play_items |-> <<Record(1, InTime, 6000), EmptyRecord, Record(2, Sec(5000), 6000)>>,
           marks |-> <<Mark(0, InTime), Mark(2, Sec(5000))>>],
          [play_items |-> <<Record(1, InTime, 6000), Record(2, InTime, 14400)>>,
           marks |-> <<Mark(1, InTime)>>],
          [play_items |-> <<Record(1, InTime, 6000), Record(2, InTime, 9000)>>,
           marks |-> <<Mark(1, InTime + Sec(100)), Mark(0, InTime)>>],
          [play_items |-> <<EmptyRecord>>, marks |-> <<>>],
          [play_items |-> <<Record(1, InTime, 0), Record(2, InTime, 14400),
                            Record(3, InTime, 14402), Record(1, InTime, 14401)>>,
           marks |-> <<Mark(1, InTime)>>] }

\* a PLAYLIST folder with at least one file; nothing was computed yet
InitMpls ==
    /\ table = <<>>
    /\ sub_files = <<>>
    /\ NoPlan
    /\ WindowOpened
    /\ NoSubtitle
    /\ NoEstimate
    /\ NoSrt
    /\ NoChapterText
    /\ NoRemux
    /\ NoPairing
    /\ mpls_folder \in SeqsUpTo(MplsFiles, MaxFiles) \ {<<>>}
    /\ main_mpls = [state |-> "none"]
    /\ measured = [state |-> "none"]

\* get_main_mpls(bdmv_path) (lines 557-570)
GetMainMpls ==
    /\ mpls_folder # <<>>
    /\ main_mpls.state = "none"
    /\ main_mpls' = [state |-> "returned",
                     selected_mpls |->
                         get_main_mpls(mpls_folder, Len(mpls_folder)).selected_mpls]
    /\ UNCHANGED <<mpls_folder, measured>>
    /\ UNCHANGED <<table, sub_files, engine_vars, gui_vars, ass_vars, est_vars,
                   srt_vars, chapter_vars, remux_vars, pairing_vars>>

\* get_total_time() and get_total_time_no_repeat() of one playlist
\* (lines 95-99)
GetTotalTime ==
    /\ measured.state = "none"
    /\ \E n \in 1..Len(mpls_folder) :
           measured' = [state |-> "returned", by |-> "get_total_time", mpls |-> n,
                        total_time |-> TotalTime(Chapter(mpls_folder[n])),
                        total_time_no_repeat |->
                            TotalTimeNoRepeat(Chapter(mpls_folder[n]))]
    /\ UNCHANGED <<mpls_folder, main_mpls>>
    /\ UNCHANGED <<table, sub_files, engine_vars, gui_vars, ass_vars, est_vars,
                   srt_vars, chapter_vars, remux_vars, pairing_vars>>

\* get_index_to_m2ts_and_offset on one playlist (lines 1993-2009)
GetIndexToOffset ==
    /\ measured.state = "none"
    /\ \E n \in 1..Len(mpls_folder) :
           measured' = MarkTimesOf("get_index_to_m2ts_and_offset", n, mpls_folder[n])
    /\ UNCHANGED <<mpls_folder, main_mpls>>
    /\ UNCHANGED <<table, sub_files, engine_vars, gui_vars, ass_vars, est_vars,
                   srt_vars, chapter_vars, remux_vars, pairing_vars>>

\* the chapter times of add_chapter_to_mkv on one playlist whose episode
\* is the whole playlist: no mark comes within 0.1 s of the duration of
\* the MKV, so that episode_duration_time_sum stays 0 (lines 735-771)
AddChapterTimes ==
    /\ measured.state = "none"
    /\ \E n \in 1..Len(mpls_folder) :
           measured' = MarkTimesOf("add_chapter_to_mkv", n, mpls_folder[n])
    /\ UNCHANGED <<mpls_folder, main_mpls>>
    /\ UNCHANGED <<table, sub_files, engine_vars, gui_vars, ass_vars, est_vars,
                   srt_vars, chapter_vars, remux_vars, pairing_vars>>

SpecMpls ==
    InitMpls /\ [][GetMainMpls \/ GetTotalTime \/ GetIndexToOffset \/ AddChapterTimes]_vars

\* ========================================================================
\* The episode loop of bdmv_remux (lines 1020-1056): every .mkv file of the
\* output folder is probed by extract_pcm; a file without LPCM track is
\* passed over, a file with one is remuxed with the subtitle sub_files[i - 1]
\* when there are that many subtitle files.
\* ========================================================================
MaxEpisodes == 3

InitPairing ==
    /\ table = <<>>
    /\ sub_files \in SubLists
    /\ NoPlan
    /\ WindowOpened
    /\ NoSubtitle
    /\ NoEstimate
    /\ NoSrt
    /\ NoChapterText
    /\ NoRemux
    /\ NoMpls
    /\ episode_files \in SeqsUpTo({[lpcm |-> TRUE], [lpcm |-> FALSE]}, MaxEpisodes)
    /\ muxing = [file |-> 0, i |-> 0, muxed |-> <<>>]

\* one turn of 'for file in os.listdir(dst_folder)' on the next .mkv file
\* (lines 1022-1056): 'continue' when extract_pcm returns no track_info
\* (lines 1025-1027), else 'i += 1' (line 1040) and the remux command, to
\* which sub_files[i - 1] is added 'if self.sub_files and
\* len(self.sub_files) >= i' (lines 1047-1048)
RemuxEpisode ==
    /\ muxing.file < Len(episode_files)
    /\ muxing' =
           IF ~episode_files[muxing.file + 1].lpcm
           THEN [file |-> muxing.file + 1, i |-> muxing.i,
                 muxed |-> Append(muxing.muxed, [remuxed |-> FALSE, subtitle |-> 0])]
           ELSE [file |-> muxing.file + 1, i |-> muxing.i + 1,
                 muxed |-> Append(muxing.muxed,
                                  [remuxed |-> TRUE,
                                   subtitle |-> IF sub_files # <<>>
                                                   /\ Len(sub_files) >= muxing.i + 1
                                                THEN muxing.i + 1 ELSE 0])]
    /\ UNCHANGED <<episode_files, table, sub_files, engine_vars, gui_vars, ass_vars,
                   est_vars, srt_vars, chapter_vars, remux_vars, mpls_vars>>

SpecPairing == InitPairing /\ [][RemuxEpisode]_vars

\* ========================================================================
\* Properties of the alignment engine
\* ========================================================================
\* the number of chapter marks of a playlist (C_p)
RECURSIVE CountMarks(_, _)
CountMarks(chapter, n) ==
    IF n = 0 THEN 0 ELSE CountMarks(chapter, n - 1) + Len(MarkInfoGet(chapter, n - 1))

NumMarks(chapter) == CountMarks(chapter, Len(chapter.in_out_time))

\* the chapter boundaries B_{p,1}, B_{p,2}, ... of a playlist, in ticks from
\* its start: the marks by play-item, then in the order of the list; a mark
\* counts the durations of all play-items before its own
RECURSIVE BoundariesUpTo(_, _)
BoundariesUpTo(chapter, n) ==
    IF n = 0 THEN <<>>
    ELSE BoundariesUpTo(chapter, n - 1)
         \o [m \in 1..Len(MarkInfoGet(chapter, n - 1)) |->
               SumDurations(chapter.in_out_time, n - 1)
               + MarkInfoGet(chapter, n - 1)[m] - chapter.in_out_time[n].in_time]

ChapterBoundaries(chapter) == BoundariesUpTo(chapter, Len(chapter.in_out_time))

\* the last call of generate_configuration returned a plan, which is the
\* value of CONFIGURATION
Returned == call.mode # "none" /\ ~call.raised

DefaultReturned == call.mode = "default" /\ ~call.raised

OverrideReturned == call.mode = "override" /\ ~call.raised

\* an entry's offset read as a time, in milliseconds and in ticks
OffsetMs(e) == ParseTime(CONFIGURATION[e].offset)

OffsetTicks(e) == 45 * OffsetMs(e)

Successor(e) ==
    /\ e \in DOMAIN CONFIGURATION
    /\ e + 1 \in DOMAIN CONFIGURATION

SamePlaylistSuccessor(e) ==
    /\ Successor(e)
    /\ CONFIGURATION[e + 1].bdmv_index = CONFIGURATION[e].bdmv_index

\* C1: in every plan returned by generate_configuration, the pair
\* (bdmv_index, chapter_index) of episode e+1 is lexicographically strictly
\* greater than that of episode e.
C1_ChapterOrdering ==
    Returned =>
        \A e \in DOMAIN CONFIGURATION :
            Successor(e) =>
                \/ CONFIGURATION[e + 1].bdmv_index > CONFIGURATION[e].bdmv_index
                \/ /\ CONFIGURATION[e + 1].bdmv_index = CONFIGURATION[e].bdmv_index
                   /\ CONFIGURATION[e + 1].chapter_index > CONFIGURATION[e].chapter_index

\* C2: in every plan returned by generate_configuration, each playlist that
\* receives an episode has exactly one episode at chapter_index = 1.
C2_OneFirstChapter ==
    Returned =>
        \A e \in DOMAIN CONFIGURATION :
            Cardinality({f \in DOMAIN CONFIGURATION :
                            /\ CONFIGURATION[f].bdmv_index = CONFIGURATION[e].bdmv_index
                            /\ CONFIGURATION[f].chapter_index = 1}) = 1

\* the entry of episode e names chapter k of its playlist and that chapter's
\* time, to the millisecond
EntryAtBoundary(e, k) ==
    /\ CONFIGURATION[e].chapter_index = k
    /\ k \in 1..NumMarks(table[CONFIGURATION[e].bdmv_index])
    /\ OffsetMs(e) = RoundMs(ChapterBoundaries(table[CONFIGURATION[e].bdmv_index])[k])

C4_SuccessorAfterEnd ==
    DefaultReturned =>
        \A e \in DOMAIN CONFIGURATION :
            SamePlaylistSuccessor(e) =>
                OffsetTicks(e + 1) > OffsetTicks(e) + SubEnd(sub_files, e) - Sec(300)

\* C4 amended: the offsets are recorded rounded to the millisecond, so the
\* bound holds of them up to one millisecond (45 ticks):
\* offset(e+1) > offset(e) + D[e] - 300 s - 0.001 s.
C4_SuccessorAfterEndRounded ==
    DefaultReturned =>
        \A e \in DOMAIN CONFIGURATION :
            SamePlaylistSuccessor(e) =>
                OffsetTicks(e + 1) > OffsetTicks(e) + SubEnd(sub_files, e) - Sec(300) - 45

\* a default plan that places a successor later in the same playlist
C4_Witness ==
    /\ DefaultReturned
    /\ \E e \in DOMAIN CONFIGURATION :
           SamePlaylistSuccessor(e) /\ OffsetTicks(e + 1) > OffsetTicks(e)

\* C7: in override mode the entry recorded for the pinned episode
\* subtitle_index has chapter_index = sub_combo_index[subtitle_index] and the
\* time of that chapter mark as its offset.
C7_PinnedEntry ==
    (OverrideReturned /\ call.subtitle_index \in DOMAIN CONFIGURATION) =>
        EntryAtBoundary(call.subtitle_index, call.sub_combo_index[call.subtitle_index])

\* the playlists hold fewer chapter boundaries than there are episodes
RECURSIVE TotalMarks(_, _)
TotalMarks(tbl, n) == IF n = 0 THEN 0 ELSE TotalMarks(tbl, n - 1) + NumMarks(tbl[n])

FewerBoundariesThanEpisodes == TotalMarks(table, Len(table)) < Len(sub_files)

\* two pinned episodes of a single playlist, the later one pinned to a
\* chapter that is not after the earlier one's
InconsistentOverride ==
    /\ call.mode = "override"
    /\ Len(table) = 1
    /\ \E e \in DOMAIN call.sub_combo_index :
           /\ e + 1 \in DOMAIN call.sub_combo_index
           /\ e + 1 <= call.subtitle_index
           /\ call.sub_combo_index[e + 1] <= call.sub_combo_index[e]

\* C8: generate_configuration produces no plan and surfaces an error when the
\* playlists hold fewer chapter boundaries than there are episodes or when
\* the overrides break the ordering.
C8_AlignmentError ==
    (call.mode # "none" /\ (FewerBoundariesThanEpisodes \/ InconsistentOverride)) =>
        call.raised

\* C9: one play-item of 2 880 s with marks at 0 s and 1 440 s, two subtitles
\* of 1 200 s < d <= 1 440 s, default mode: the plan is exactly
\* {0: (P, chapter 1, 0 s), 1: (P, chapter 2, 1 440 s)}.
C9_SiameseDisc ==
    (/\ call.mode = "default"
     /\ table = <<Siamese>>
     /\ Len(sub_files) = 2
     /\ \A i \in 1..2 : Sec(1200) < sub_files[i] /\ sub_files[i] <= Sec(1440)) =>
        /\ ~call.raised
        /\ DOMAIN CONFIGURATION = {0, 1}
        /\ CONFIGURATION[0].bdmv_index = 1 /\ CONFIGURATION[1].bdmv_index = 1
        /\ CONFIGURATION[0].chapter_index = 1 /\ OffsetMs(0) = 0
        /\ CONFIGURATION[1].chapter_index = 2 /\ OffsetMs(1) = 1440000

\* M playlists of one play-item of 1 440 s with a single mark at 0 s, and
\* N <= M subtitles of 24 minutes
C10_Scenario ==
    /\ \A r \in 1..Len(table) : table[r] = Simple
    /\ Len(sub_files) <= Len(table)
    /\ \A i \in 1..Len(sub_files) : sub_files[i] = Sec(1440)

C10_Plan == [i \in 0..(Len(sub_files) - 1) |-> Entry(i + 1, 1, <<0>>)]

\* the default plan is {i: (P_i, chapter 1, offset 0)} for 0 <= i < N, and a
\* merge run writes one merged subtitle for each of P_0 .. P_{N-1}, holding
\* that playlist's episode unshifted, and none for the other playlists
C10_PlanAndDumps ==
    /\ ~call.raised
    /\ CONFIGURATION = C10_Plan
    /\ run # "none" =>
          /\ configuration = C10_Plan
          /\ Len(dumps) = Len(sub_files)
          /\ \A i \in 1..Len(dumps) :
                /\ dumps[i].folder = i
                /\ dumps[i].content = <<[sub_file |-> i - 1, shift |-> 0]>>

\* C10 as stated: for M such playlists and any N <= M subtitles of 24
\* minutes, the default plan is {i: (P_i, 1, 0) for 0 <= i < N} and
\* generate_bluray_subtitle writes exactly the subtitles of P_0 .. P_{N-1}.
C10_PartialFill ==
    (C10_Scenario /\ call.mode = "default") => C10_PlanAndDumps

\* C10 amended: the same for 1 <= N <= M, where generate_bluray_subtitle
\* also completes (without any subtitle the engine assumes 1 440 s for every
\* episode and assigns all M playlists).
C10_PartialFillOfSubtitles ==
    (C10_Scenario /\ sub_files # <<>> /\ call.mode = "default") =>
        (C10_PlanAndDumps /\ run \in {"none", "done"})

\* a completed merge run on fewer subtitles than playlists
C10_Witness ==
    /\ C10_Scenario
    /\ sub_files # <<>>
    /\ Len(sub_files) < Len(table)
    /\ call.mode = "default"
    /\ run = "done"
    /\ Len(dumps) = Len(sub_files)

\* the plan default mode returns for the table and the subtitle files
DefaultPlan == generate_configuration(table, sub_files, NoOverride, 0)

\* the last call was in override mode and pinned every episode to the
\* chapter the default plan gives it
PinnedToDefault ==
    /\ call.mode = "override"
    /\ ~DefaultPlan.raised
    /\ DOMAIN call.sub_combo_index = DOMAIN DefaultPlan.configuration
    /\ \A e \in DOMAIN call.sub_combo_index :
           call.sub_combo_index[e] = DefaultPlan.configuration[e].chapter_index

\* C24: when sub_combo_index pins every episode to the chapter of the
\* default plan, override mode returns the default plan, whatever episode
\* subtitle_index names.
C24_OverrideAgreesWithDefault ==
    PinnedToDefault => (~call.raised /\ CONFIGURATION = DefaultPlan.configuration)

\* C25: with N >= 1 subtitle files generate_configuration does not fail
\* with an out-of-range access and returns a plan whose episode indices are
\* all below N, also when a play-item offers more qualifying siamese marks
\* than there are subtitles left.
C25_EpisodesWithinSubtitles ==
    (call.mode # "none" /\ sub_files # <<>>) =>
        /\ ~call.raised
        /\ \A e \in DOMAIN CONFIGURATION : e < Len(sub_files)

\* the start of play-item i (0-based) of a playlist, in milliseconds
ItemStartMs(chapter, i) == RoundMs(SumDurations(chapter.in_out_time, i))

\* entry e stands at the start of a play-item of its playlist that has no
\* mark, and at no chapter boundary of the playlist
AtMarklessItem(e) ==
    \E i \in 0..(Len(table[CONFIGURATION[e].bdmv_index].in_out_time) - 1) :
        /\ MarkInfoGet(table[CONFIGURATION[e].bdmv_index], i) = <<>>
        /\ OffsetMs(e) = ItemStartMs(table[CONFIGURATION[e].bdmv_index], i)
        /\ \A k \in 1..NumMarks(table[CONFIGURATION[e].bdmv_index]) :
               OffsetMs(e) # RoundMs(ChapterBoundaries(table[CONFIGURATION[e].bdmv_index])[k])

\* C28: a play-item without chapter marks is skipped: no plan returned by
\* generate_configuration, in default or in override mode, has an entry
\* whose offset is the start of such a play-item.
C28_MarklessItemSkipped ==
    Returned => \A e \in DOMAIN CONFIGURATION : ~AtMarklessItem(e)

\* C29: the episode indices of every plan returned by generate_configuration
\* are dense: the key set is {0, ..., m-1} for some m.
C29_DenseEpisodes ==
    Returned => \A e \in DOMAIN CONFIGURATION : e = 0 \/ e - 1 \in DOMAIN CONFIGURATION

\* a returned plan whose two episodes stand in two playlists
C29_Witness ==
    /\ Returned
    /\ DOMAIN CONFIGURATION = {0, 1}
    /\ CONFIGURATION[0].bdmv_index # CONFIGURATION[1].bdmv_index

\* ========================================================================
\* Properties of the ASS merge
\* ========================================================================
\* the number of events of the first k files
RECURSIVE EventsBefore(_)
EventsBefore(k) == IF k = 0 THEN 0 ELSE EventsBefore(k - 1) + Len(ass_files[k].events)

\* the styles of a list that carry a name
StylesNamed(styles, name) == {styles[i] : i \in {j \in 1..Len(styles) : styles[j].Name = name}}

\* event i of the k-th file, as it stands in the merged subtitle, names a
\* style of the merged subtitle that has the field values of the style the
\* event named in its file
SameStyle(k, i) ==
    /\ StylesNamed(content.styles, content.events[EventsBefore(k - 1) + i].Style) # {}
    /\ \A merged \in StylesNamed(content.styles,
                                 content.events[EventsBefore(k - 1) + i].Style) :
           \A own \in StylesNamed(ass_files[k].styles, ass_files[k].events[i].Style) :
               merged.Fontsize = own.Fontsize

\* C5: after any sequence of append_ass merges, every event that came from a
\* merged file carries a Style name that exists in the base and whose style
\* has the field values of the style the event referenced in its file, also
\* when the clashing style, once suffixed, matches a style of the base and is
\* dropped.
C5_EventsKeepTheirStyle ==
    \A k \in 2..Len(ass_files) :
        \A i \in 1..Len(ass_files[k].events) : SameStyle(k, i)

\* C16: starting from a base whose style names are pairwise distinct, after
\* any sequence of append_ass merges no two styles of the base have the same
\* Name, also when a merged file defines X and X1 at once.
C16_StyleNamesDistinct ==
    \A i, j \in 1..Len(content.styles) :
        content.styles[i].Name = content.styles[j].Name => i = j

\* a merge has renamed a clashing style past a taken name: the base holds
\* Default, Default1 and Default11
C16_Witness ==
    /\ Len(ass_files) >= 2
    /\ \A name \in {<<"Default">>, <<"Default", "1">>, <<"Default", "1", "1">>} :
           NameTaken(content.styles, name)

\* ========================================================================
\* Properties of the window
\* ========================================================================
\* the plan generate_configuration computes from the BDMV table and the
\* checked subtitle files as they are now
CurrentPlan == generate_configuration(table, CheckedSubFiles(table2, sub_check_state),
                                      NoOverride, 0)

\* C6: after any sequence of input changes the plan a merge uses is the plan
\* generate_configuration computes from the inputs current at that moment; a
\* plan stored in CONFIGURATION for earlier inputs is never used.
C6_MergeUsesCurrentPlan ==
    run = "done" => (~CurrentPlan.raised /\ configuration = CurrentPlan.configuration)

\* ========================================================================
\* Properties of the merge
\* ========================================================================
\* the merged subtitle written for a playlist holds episode e shifted by shift
MergedWithShift(folder, e, shift) ==
    \E d \in 1..Len(dumps) :
        /\ dumps[d].folder = folder
        /\ \E n \in 1..Len(dumps[d].content) :
               /\ dumps[d].content[n].sub_file = e
               /\ dumps[d].content[n].shift = shift

\* C11: after generate_bluray_subtitle, for every entry of the plan used the
\* events of that episode are in the merged subtitle of the entry's playlist,
\* shifted by exactly the entry's offset, also for the first episode placed
\* in a playlist when its offset is not 0.
C11_ShiftedByOffset ==
    run = "done" =>
        \A e \in DOMAIN configuration :
            MergedWithShift(configuration[e].folder, e, ParseTime(configuration[e].offset))

\* the episodes the plan places in playlist p
EpisodesOf(p) == {e \in DOMAIN configuration : configuration[e].bdmv_index = p}

\* dump d was written for playlist p, holds each episode of p once and
\* nothing else, and every dump before it holds earlier episodes only
DumpOfPlaylist(d, p) ==
    /\ dumps[d].folder = p
    /\ {dumps[d].content[n].sub_file : n \in 1..Len(dumps[d].content)} = EpisodesOf(p)
    /\ Len(dumps[d].content) = Cardinality(EpisodesOf(p))
    /\ \A c \in 1..(d - 1) :
           \A n \in 1..Len(dumps[c].content) :
               \A e \in EpisodesOf(p) : dumps[c].content[n].sub_file < e

\* C21: in generate_bluray_subtitle the merged subtitle of a playlist is
\* written before the first episode of the next playlist is loaded or
\* appended; every playlist with an episode in the plan gets exactly one
\* dump, which contains the episodes of that playlist only.
C21_OneDumpPerPlaylist ==
    run = "done" =>
        /\ Len(dumps) = Cardinality({configuration[e].bdmv_index : e \in DOMAIN configuration})
        /\ \A e \in DOMAIN configuration :
               \E d \in 1..Len(dumps) : DumpOfPlaylist(d, configuration[e].bdmv_index)
        /\ \A d \in 1..Len(dumps) : DumpOfPlaylist(d, dumps[d].folder)

\* a merge over a plan of two playlists has written two subtitles
C21_Witness ==
    /\ run = "done"
    /\ Len(dumps) = 2
    /\ dumps[1].folder # dumps[2].folder
    /\ dumps[1].content # <<>> /\ dumps[2].content # <<>>

\* ========================================================================
\* Properties of the duration estimate
\* ========================================================================
\* the second-largest distinct end time of a file that has two
SecondEnd(ends) == SetMax(EndSet(ends) \ {SetMax(EndSet(ends))})

\* max the largest end time, second the second-largest distinct one: second
\* when second < max - 300 s, max otherwise
GuardedEnd(ends) ==
    IF SecondEnd(ends) < SetMax(EndSet(ends)) - Sec(300)
    THEN SecondEnd(ends)
    ELSE SetMax(EndSet(ends))

\* C12: max_end_time applies the outlier guard to ASS and SRT subtitles
\* alike: it returns the second-largest distinct end time when that lies more
\* than 300 s below the largest, and the largest otherwise.
C12_OutlierGuard ==
    (/\ max_end.state # "none"
     /\ subtitle.kind \in {"ass", "srt"}
     /\ Cardinality(EndSet(subtitle.ends)) >= 2) =>
        max_end = EndValue(GuardedEnd(subtitle.ends))

\* C13: the estimate is total: for every parsed subtitle, also one with no
\* event, with one event, with all events ending at the same time, or a PGS
\* stream with a single timestamp, it returns a non-negative number of
\* seconds and never raises.
C13_EstimateIsTotal ==
    max_end.state # "none" => (max_end.state = "returned" /\ max_end.value >= 0)

\* ========================================================================
\* Properties of the SRT merge
\* ========================================================================
\* the number of entries of the first k files
RECURSIVE LinesBefore(_)
LinesBefore(k) == IF k = 0 THEN 0 ELSE LinesBefore(k - 1) + Len(srt_files[k].lines)

\* entry i of the k-th file stands in base after the entries of the files
\* before it, with its index raised by the index of the entry before the
\* file's first, its times raised by the merge's time_shift, and its text
MergedEntry(k, i) ==
    /\ lines[LinesBefore(k - 1) + i].index
           = srt_files[k].lines[i].index + lines[LinesBefore(k - 1)].index
    /\ ParseTime(lines[LinesBefore(k - 1) + i].start.fields)
           = ParseTime(srt_files[k].lines[i].start.fields) + srt_files[k].time_shift
    /\ ParseTime(lines[LinesBefore(k - 1) + i].end.fields)
           = ParseTime(srt_files[k].lines[i].end.fields) + srt_files[k].time_shift
    /\ lines[LinesBefore(k - 1) + i].text = srt_files[k].lines[i].text

\* C14: append_ass on SRT content gives every incoming entry its index plus
\* the index of base's last entry and its times plus time_shift, appends the
\* incoming entries after the base's in their order, and leaves the entries
\* of base unchanged; after any sequence of merges of files numbered 1..n
\* the indices of base are strictly increasing.
C14_SrtMerge ==
    /\ Len(lines) = LinesBefore(Len(srt_files))
    /\ \A i \in 1..Len(srt_files[1].lines) : lines[i] = srt_files[1].lines[i]
    /\ \A k \in 2..Len(srt_files) :
           \A i \in 1..Len(srt_files[k].lines) : MergedEntry(k, i)
    /\ \A i \in 1..(Len(lines) - 1) : lines[i].index < lines[i + 1].index

\* two merges of files with entries, the second with a time shift
C14_Witness ==
    /\ Len(srt_files) = 3
    /\ srt_files[2].lines # <<>>
    /\ srt_files[3].lines # <<>>
    /\ srt_files[3].time_shift > 0

\* a time string of the form HH:MM:SS,mmm
Canonical(time) ==
    /\ Len(time.fields) = 3
    /\ time.decimal = ","
    /\ time.fields[1] < 100000 /\ time.fields[2] < 60000 /\ time.fields[3] < 60000

\* C15: every timestamp SRT.dump_file writes has the form HH:MM:SS,mmm with
\* a comma before the milliseconds, for the entries read from a file and for
\* the entries append_ass has shifted, also when the shifted time is 0.
C15_CanonicalTimestamps ==
    \A i \in 1..Len(srt_written) :
        Canonical(srt_written[i].start) /\ Canonical(srt_written[i].end)

\* ========================================================================
\* Properties of the chapter text
\* ========================================================================
\* a string of the form HH:MM:SS.mmm
ChapterTime(s) ==
    /\ Len(s) = 12
    /\ \A i \in 1..Len(s) :
           s[i] = (IF i \in {3, 6} THEN ":" ELSE IF i = 9 THEN "." ELSE s[i])
    /\ \A i \in (1..Len(s)) \ {3, 6, 9} :
           s[i] \in {"0", "1", "2", "3", "4", "5", "6", "7", "8", "9"}

\* C17: whatever the time of a mark (whole seconds, or one, two, three or
\* more fractional digits), the i-th mark of the window is written with the
\* number i padded to two digits and with a time of the form HH:MM:SS.mmm,
\* with nothing after the milliseconds.
C17_ChapterLines ==
    writer.state # "idle" =>
        \A i \in 1..Len(writer.chapter_text) :
            /\ writer.chapter_text[i].chapter_id_str = TwoDigits(i)
            /\ ChapterTime(writer.chapter_text[i].real_time_str)

\* ========================================================================
\* Properties of the remux run
\* ========================================================================
\* C18: when an external tool of the run exits with a non-zero status, the
\* run surfaces an error and performs no later step; in particular the
\* episode file is not deleted and replaced after a failed remux command.
C18_ToolErrorStopsRun ==
    \A i \in 1..Len(steps) :
        steps[i].status # 0 => (i = Len(steps) /\ pc = "raised")

\* C19: once the user has canceled, no further external tool is started and
\* no file is overwritten.
C19_NoStepAfterCancel ==
    \A i \in 1..Len(steps) : ~steps[i].canceled

\* C20: after a run, whether it has completed or an exception has ended it,
\* none of the scratch files chapter.txt, mkvinfo.txt and .meta remains.
C20_NoScratchFileLeft ==
    pc \in {"done", "raised"} => file_system \cap {"chapter.txt", "mkvinfo.txt", ".meta"} = {}

\* ========================================================================
\* Properties of the playlists
\* ========================================================================
\* C22: on a PLAYLIST folder with at least one .mpls file get_main_mpls
\* returns one of the files, never None, and no file of the folder has a
\* greater indicator total_time_no_repeat x (1 + total_marks / 5) than the
\* returned one.
C22_MainMplsMaximizes ==
    main_mpls.state = "returned" =>
        /\ main_mpls.selected_mpls \in 1..Len(mpls_folder)
        /\ \A n \in 1..Len(mpls_folder) :
               Indicator(Chapter(mpls_folder[n]))
                   <= Indicator(Chapter(mpls_folder[main_mpls.selected_mpls]))

\* x < y of two floats
FloatLess(x, y) ==
    \/ x.exp < y.exp
    \/ /\ x.exp = y.exp
       /\ \E i \in 1..53 : /\ x.frac[i] < y.frac[i]
                           /\ \A j \in 1..(i - 1) : x.frac[j] = y.frac[j]

\* C23: for a playlist whose play-items all have out_time >= in_time,
\* get_total_time() >= get_total_time_no_repeat() >= 0, as the floats the
\* two methods return.
C23_TotalTimeAtLeastNoRepeat ==
    (measured.state = "returned" /\ measured.by = "get_total_time") =>
        /\ ~FloatLess(measured.total_time, measured.total_time_no_repeat)
        /\ ~FloatLess(measured.total_time_no_repeat, FloatZero)

\* C26: the times that get_index_to_m2ts_and_offset and the mark loop of
\* add_chapter_to_mkv (of an episode that starts with the playlist) compute
\* for the marks of a playlist are its chapter boundaries B_{p,1}, B_{p,2},
\* ..., each counting the durations of all play-items before its own.
C26_MarkTimesAreBoundaries ==
    (measured.state = "returned" /\ measured.by # "get_total_time") =>
        measured.index_to_offset = ChapterBoundaries(Chapter(mpls_folder[measured.mpls]))

\* C30: in a decoded playlist every key of mark_info is an index of
\* in_out_time, the play-item at that index is the record of the file the
\* marks of the key refer to, and each of these marks lies within
\* [in_time, out_time] of that play-item.
C30_KeysDenotePlayItems ==
    measured.state # "none" =>
        \A r \in DOMAIN Chapter(mpls_folder[measured.mpls]).mark_info :
            /\ r + 1 \in 1..Len(Chapter(mpls_folder[measured.mpls]).in_out_time)
            /\ Chapter(mpls_folder[measured.mpls]).in_out_time[r + 1].clip_information_filename
                   = mpls_folder[measured.mpls].play_items[r + 1].clip_information_filename
            /\ \A m \in DOMAIN Chapter(mpls_folder[measured.mpls]).mark_info[r] :
                   /\ Chapter(mpls_folder[measured.mpls]).in_out_time[r + 1].in_time
                          <= Chapter(mpls_folder[measured.mpls]).mark_info[r][m]
                   /\ Chapter(mpls_folder[measured.mpls]).mark_info[r][m]
                          <= Chapter(mpls_folder[measured.mpls]).in_out_time[r + 1].out_time

\* ========================================================================
\* Properties of the episode loop
\* ========================================================================
\* C27: the subtitle muxed into the k-th .mkv file of the output folder is
\* sub_files[k - 1], for every k up to the number of subtitle files, also
\* when an earlier file has no LPCM track.
C27_SubtitleOfEpisode ==
    \A k \in 1..Len(muxing.muxed) :
        k <= Len(sub_files) => muxing.muxed[k].subtitle = k

====
